---- MODULE Spec2Model ----
(***************************************************************************)
(* Dual-factor (key ownership + verifiable credential) gated decryption:   *)
(* the trust and claims policy engine, the DID:PKH and compact-token       *)
(* codecs, the encrypt/decrypt orchestrators and the sandboxed action      *)
(* programs that release the secret.                                       *)
(*                                                                         *)
(* Strings are modelled as sequences of lexemes (atomic substrings), so    *)
(* that splitting, trimming, prefix and exact-membership tests are         *)
(* computed rather than assumed.                                           *)
(***************************************************************************)
EXTENDS Integers, Sequences, FiniteSets, TLC

VARIABLES
  processEnv,   \* value of the TRUSTED_ISSUERS environment variable
  runtime,      \* "browser" | "node" | "other": which branch getEnv takes
  polReq,       \* requirement last handed to validateGithubCredentialRequirements
  polOut,       \* its outcome
  polCalls,     \* number of policy calls made
  now,          \* the clock, in minutes
  la,           \* the execution of a sandbox action program
  call,         \* the encrypt or decrypt call the host application is in
  fx,           \* the last library function applied: its arguments and result
  storage,      \* the credential store of the web app: primary store, cache, calls
  access        \* the content-access flow of the web app

polVars == <<processEnv, runtime, polReq, polOut, polCalls>>

\* the state of the web app
appVars == <<storage, access>>

vars == <<processEnv, runtime, polReq, polOut, polCalls, now, la, call, fx, storage, access>>

\* everything but the sandbox execution
notLa == <<polVars, now, call, fx, appVars>>

(***************************************************************************)
(* Bounds of the model                                                     *)
(***************************************************************************)
MaxPolCalls == 1
NumKeys == 2      \* accounts (and their signing keys)
Epoch == 10       \* reading of the clock when an operation starts

(***************************************************************************)
(* Strings                                                                 *)
(***************************************************************************)
Str(x) == <<x>>
EmptyStr == <<>>
SP == " "
COMMA == ","

\* the two issuers of the default trust list, and others used as inputs
IssuerRebase == "did:web:rebasedemokey.pages.dev"
IssuerTiny == "did:web:issuer.tinycloud.xyz"
IssuerEvil == "did:web:malicious-actor.com"

\* String.prototype.startsWith
StartsWith(s, prefix) ==
  /\ Len(s) >= Len(prefix)
  /\ SubSeq(s, 1, Len(prefix)) = prefix

\* String.prototype.includes (substring test)
StrIncludes(s, sub) ==
  \E i \in 1..(Len(s) + 1) :
    /\ i + Len(sub) - 1 <= Len(s)
    /\ SubSeq(s, i, i + Len(sub) - 1) = sub

\* String.prototype.split(sep) for a one-lexeme separator
RECURSIVE SplitFrom(_, _, _, _)
SplitFrom(s, sep, i, cur) ==
  IF i > Len(s) THEN <<cur>>
  ELSE IF s[i] = sep THEN <<cur>> \o SplitFrom(s, sep, i + 1, <<>>)
  ELSE SplitFrom(s, sep, i + 1, Append(cur, s[i]))

Split(s, sep) == SplitFrom(s, sep, 1, <<>>)

\* String.prototype.trim
RECURSIVE TrimLeft(_)
TrimLeft(s) ==
  IF s # <<>> /\ Head(s) = SP THEN TrimLeft(Tail(s)) ELSE s

RECURSIVE TrimRight(_)
TrimRight(s) ==
  IF s # <<>> /\ s[Len(s)] = SP THEN TrimRight(SubSeq(s, 1, Len(s) - 1)) ELSE s

Trim(s) == TrimRight(TrimLeft(s))

\* Array.prototype.join(sep) of a list of strings, sep a string
RECURSIVE Join(_, _)
Join(list, sep) ==
  IF list = <<>> THEN <<>>
  ELSE IF Len(list) = 1 THEN list[1]
  ELSE list[1] \o sep \o Join(Tail(list), sep)

\* Array.prototype.map / filter / includes on sequences
RECURSIVE MapTrim(_)
MapTrim(list) ==
  IF list = <<>> THEN <<>> ELSE <<Trim(Head(list))>> \o MapTrim(Tail(list))

RECURSIVE FilterNonEmpty(_)
FilterNonEmpty(list) ==
  IF list = <<>> THEN <<>>
  ELSE IF Len(Head(list)) > 0 THEN <<Head(list)>> \o FilterNonEmpty(Tail(list))
  ELSE FilterNonEmpty(Tail(list))

ListIncludes(list, x) == \E i \in 1..Len(list) : list[i] = x

(***************************************************************************)
(* Results of operations that may throw                                    *)
(***************************************************************************)
Ok(v) == [ok |-> TRUE, value |-> v, error |-> <<>>]
Throw(msg) == [ok |-> FALSE, value |-> <<>>, error |-> msg]

(***************************************************************************)
(* Environment: getEnv, getTrustedIssuers, validateTrustedIssuer           *)
(***************************************************************************)
Undefined == [defined |-> FALSE, value |-> <<>>]
Defined(s) == [defined |-> TRUE, value |-> s]

DefaultTrustedIssuers == <<IssuerRebase, COMMA, IssuerTiny>>

\* getEnv("TRUSTED_ISSUERS") in environment rt with the variable set to e
getEnv(rt, e) ==
  IF rt = "browser"
  THEN \* import.meta.env?.VITE_TRUSTED_ISSUERS || default
       IF e.defined /\ e.value # <<>> THEN Ok(e.value) ELSE Ok(DefaultTrustedIssuers)
  ELSE IF rt = "node"
  THEN IF ~e.defined \/ e.value = <<>>
       THEN Throw(<<"Node: ", "TRUSTED_ISSUERS", " ENV is not defined, please define it in the .env file">>)
       ELSE Ok(e.value)
  ELSE Ok(DefaultTrustedIssuers)

getTrustedIssuers(rt, e) ==
  LET r == getEnv(rt, e)
  IN IF r.ok THEN Ok(FilterNonEmpty(MapTrim(Split(r.value, COMMA)))) ELSE r

\* a membership test that accepts any issuer beginning with a trusted one
IssuerIsMember_Prefix(list, issuer) ==
  \E i \in 1..Len(list) : StartsWith(issuer, list[i])

IssuerIsMember(list, issuer) == ListIncludes(list, issuer)

validateTrustedIssuer(rt, e, issuer) ==
  LET r == getTrustedIssuers(rt, e)
  IN IF r.ok THEN Ok(IssuerIsMember(r.value, issuer)) ELSE r

(***************************************************************************)
(* Credential requirements                                                 *)
(***************************************************************************)
GitHubVerification == "GitHubVerification"

\* a claim value: a string, or a value of another JavaScript type
StringItem(s) == [isString |-> TRUE, chars |-> s]
OtherItem == [isString |-> FALSE, chars |-> <<"0">>]   \* e.g. the number 0: falsy, not a string
TruthyOtherItem == [isString |-> FALSE, chars |-> <<"42">>]

NoHandle == [kind |-> "undefined", items |-> <<>>]
OneHandle(item) == [kind |-> "single", items |-> <<item>>]
HandleList(items) == [kind |-> "array", items |-> items]

Requirement(issuer, type, handle, age) ==
  [issuer |-> issuer, credentialType |-> type,
   claims |-> [githubHandle |-> handle, minIssuanceAge |-> age]]

NoRequirement == Requirement(<<>>, "", NoHandle, 0)

\* !handle || typeof handle !== 'string' || handle.trim().length === 0
Falsy(item) == IF item.isString THEN item.chars = <<>> ELSE item = OtherItem
\* a handle test that refuses nothing
HandleInvalid_Never(item) == item # item

\* a handle test that lets whitespace-only strings through
HandleInvalid_BlankOk(item) == Falsy(item) \/ ~item.isString

HandleInvalid(item) ==
  Falsy(item) \/ ~item.isString \/ Len(Trim(item.chars)) = 0

HandleText(item) == item.chars

\* a type test that ignores letter case
SupportedType_AnyCase(type) == type \in {GitHubVerification, "githubverification"}

SupportedType(type) == type = GitHubVerification

validateGithubCredentialRequirements(rt, e, requirements) ==
  LET trusted == validateTrustedIssuer(rt, e, requirements.issuer)
      handles == requirements.claims.githubHandle.items
      bad == {i \in 1..Len(handles) : HandleInvalid(handles[i])}
      firstBad == CHOOSE i \in bad : \A j \in bad : i <= j
  IN IF ~trusted.ok THEN trusted
     ELSE IF ~trusted.value
     THEN Throw(<<"Untrusted issuer: ">> \o requirements.issuer
                \o <<". Trusted issuers: ">>
                \o Join(getTrustedIssuers(rt, e).value, <<COMMA, SP>>))
     ELSE IF ~SupportedType(requirements.credentialType)
     THEN Throw(<<"Invalid credential type: ", requirements.credentialType,
                  ". Only GitHubVerification is supported.">>)
     ELSE IF requirements.claims.githubHandle.kind # "undefined" /\ bad # {}
     THEN Throw(<<"Invalid GitHub handle: ">> \o HandleText(handles[firstBad])
                \o <<". GitHub handles must be non-empty strings.">>)
     ELSE Ok(<<>>)

(***************************************************************************)
(* Account addresses and DID strings                                       *)
(*                                                                         *)
(* A lexeme of an identifier string is a record [key, form].  An account   *)
(* address of account `key` is written in one of several letter cases;     *)
(* key 0 is an address nobody holds a key for.  Literal lexemes have       *)
(* key -1.  A DID string is the sequence of its ':'-separated lexemes.     *)
(***************************************************************************)
Addr(k, f) == [key |-> k, form |-> f]
Lx(text) == [key |-> -1, form |-> text]
UndefinedStr == <<Lx("undefined")>>

\* forms: "checksum" (EIP-55), "lower", "upper", "badmix" (mixed case with a
\* wrong checksum), "short" (fewer than 40 hex digits), "lower+" (the
\* lower-case address followed by further characters)
HexForms == {"checksum", "lower", "upper", "badmix"}

\* ethers isAddress / getAddress
isAddress(a) == a.key >= 0 /\ a.form \in {"checksum", "lower", "upper"}
getAddress_AsGiven(a) == a

getAddress(a) == Addr(a.key, "checksum")

\* String.prototype.toLowerCase on a lexeme
ToLowerCase(a) ==
  IF a.key >= 0 /\ a.form \in HexForms THEN Addr(a.key, "lower") ELSE a

\* `${chainId}`: the decimal text of a number
DecimalText(n) ==
  CASE n = 0 -> "0" [] n = 1 -> "1" [] n = 5 -> "5" [] n = 10 -> "10"
    [] n = 137 -> "137" [] n = -1 -> "-1"

\* parseInt(text, 10) of a text of digits
ParseInt(text) ==
  CASE text = "0" -> 0 [] text = "1" -> 1 [] text = "5" -> 5 [] text = "10" -> 10
    [] text = "137" -> 137 [] text = "010" -> 10

\* (\d+)
IsDigits(l) == l.key = -1 /\ l.form \in {"0", "1", "5", "10", "137", "010"}

DidPrefix == <<Lx("did"), Lx("pkh"), Lx("eip155")>>

\* createDIDPKH(address, chainId)
createDIDPKHOnChain(address, chainId) ==
  IF ~isAddress(address) THEN Throw(<<"Invalid Ethereum address: ">>)
  ELSE Ok(DidPrefix \o <<Lx(DecimalText(chainId)), getAddress(address)>>)

\* createDIDPKH(address, chainId = 1)
createDIDPKH(address) == createDIDPKHOnChain(address, 1)

\* /^did:pkh:eip155:(\d+):(0x[a-fA-F0-9]{40})$/
MatchesDidPattern(did) ==
  /\ Len(did) = 5
  /\ SubSeq(did, 1, 3) = DidPrefix
  /\ IsDigits(did[4])
  /\ did[5].key >= 0 /\ did[5].form \in HexForms

parseDIDPKH(did) ==
  IF did = UndefinedStr \/ ~MatchesDidPattern(did)
  THEN Throw(<<"Invalid DID:PKH format: ">>)
  ELSE IF ~isAddress(did[5]) THEN Throw(<<"Invalid address in DID:PKH: ">>)
  ELSE Ok([did |-> did, address |-> getAddress(did[5]), chainId |-> ParseInt(did[4].form)])

AddressesEqualIgnoringCase_Exact(a, b) == a = b

\* parsed.address.toLowerCase() === expectedAddress.toLowerCase()
AddressesEqualIgnoringCase(a, b) == ToLowerCase(a) = ToLowerCase(b)

\* the try block of validateDIDPKHAddress: parseDIDPKH may throw, and so
\* does .toLowerCase() of an expectedAddress that is undefined
validateDIDPKHAddressTry(did, expectedAddress) ==
  LET parsed == parseDIDPKH(did)
  IN IF ~parsed.ok THEN parsed
     ELSE IF expectedAddress = Lx("undefined") THEN Throw(<<"TypeError">>)
     ELSE Ok(AddressesEqualIgnoringCase(parsed.value.address, expectedAddress))

\* the outcome of a call of validateDIDPKHAddress: catch { return false }
validateDIDPKHAddressCall(did, expectedAddress) ==
  LET tried == validateDIDPKHAddressTry(did, expectedAddress)
  IN IF tried.ok THEN tried ELSE Ok(FALSE)

validateDIDPKHAddress(did, expectedAddress) ==
  validateDIDPKHAddressCall(did, expectedAddress).value

\* did.startsWith('did:pkh:eip155:')
StartsWithDidPrefix(did) == Len(did) >= 4 /\ SubSeq(did, 1, 3) = DidPrefix

\* did.split(':').pop()
LastSegment(did) == did[Len(did)]

(***************************************************************************)
(* Compact tokens                                                          *)
(*                                                                         *)
(* A token is the sequence of its '.'-separated segments.  A segment is    *)
(* empty, undecodable, or the base64url encoding of a JSON body or of      *)
(* signature bytes.  A signature remembers the key that made it, the       *)
(* signing input it was made over and its recovery parity (which is not    *)
(* part of the 64 bytes).                                                  *)
(***************************************************************************)
EmptySeg == [enc |-> "empty", body |-> <<>>]
GarbageSeg == [enc |-> "garbage", body |-> <<>>]
JsonSeg(body) == [enc |-> "json", body |-> body]
SigSeg(key, par, over, len) ==
  [enc |-> "sig", body |-> [by |-> key, par |-> par, over |-> over, len |-> len]]

\* const [a, b, c] = jwt.split('.'): a missing segment is undefined
Segment(jwt, i) == IF i <= Len(jwt) THEN jwt[i] ELSE EmptySeg
SegmentMissing(seg) == seg.enc = "empty"
\* JSON.parse(decode(base64urlDecode(segment))) succeeds
Decodable(seg) == seg.enc = "json"

ES256KHeader(kid) == [alg |-> "ES256K", typ |-> "JWT", kid |-> kid]

Audience == "lit-protocol-encryption"
ResourceName == "credential-gated-secret"

\* ethers recoverAddress(messageHash, {r, s, v}): the signer when the
\* signature was made over this input with this parity, otherwise an
\* unrelated address
recoverAddress_AnyInput(signingInput, sig, v) ==
  IF sig.by > 0 /\ v = 27 + sig.par
  THEN Addr(sig.by, "checksum")
  ELSE Addr(0, "checksum")

recoverAddress(signingInput, sig, v) ==
  IF sig.by > 0 /\ sig.over = signingInput /\ v = 27 + sig.par
  THEN Addr(sig.by, "checksum")
  ELSE Addr(0, "checksum")

\* signES256KJWT(wallet, payload, expirationMinutes) at time t, with the
\* nonce drawn and the recovery parity the curve produced
\* a signer that spreads the caller's fields after its own members
signES256KJWT_CallerLast(walletKey, fields, ttl, t, nonce, par) ==
  LET userDID == createDIDPKH(Addr(walletKey, "checksum")).value
      header == JsonSeg(ES256KHeader(userDID \o <<Lx("#controller")>>))
      own == [iss |-> userDID, sub |-> userDID, iat |-> t, exp |-> t + ttl,
              nonce |-> nonce]
      payload == JsonSeg([name \in (DOMAIN fields) \cup (DOMAIN own) |->
                            IF name \in DOMAIN fields THEN fields[name] ELSE own[name]])
  IN <<header, payload, SigSeg(walletKey, par, <<header, payload>>, 64)>>

signES256KJWT(walletKey, fields, ttl, t, nonce, par) ==
  LET userDID == createDIDPKH(Addr(walletKey, "checksum")).value
      header == JsonSeg(ES256KHeader(userDID \o <<Lx("#controller")>>))
      \* { ...payload, iss, sub, iat, exp, nonce }: the members written
      \* after the spread replace those of the same name the caller supplied
      own == [iss |-> userDID, sub |-> userDID, iat |-> t, exp |-> t + ttl,
              nonce |-> nonce]
      payload == JsonSeg([name \in (DOMAIN fields) \cup (DOMAIN own) |->
                            IF name \in DOMAIN own THEN own[name] ELSE fields[name]])
  IN <<header, payload, SigSeg(walletKey, par, <<header, payload>>, 64)>>

ExpirationMinutes == 5

createEncryptionJWT(walletKey, credentialRequirements, t, nonce, par) ==
  signES256KJWT(walletKey,
                [aud |-> Audience, purpose |-> "encrypt", resource |-> ResourceName,
                 credential_requirements |-> credentialRequirements],
                ExpirationMinutes, t, nonce, par)

createDecryptionJWT(walletKey, credentialRequirements, t, nonce, par) ==
  signES256KJWT(walletKey,
                [aud |-> Audience, purpose |-> "decrypt", resource |-> ResourceName,
                 credential_requirements |-> credentialRequirements],
                ExpirationMinutes, t, nonce, par)

\* parseJWT(jwt): decode header and payload without verifying
parseJWT(jwt) ==
  LET encodedHeader == Segment(jwt, 1)
      encodedPayload == Segment(jwt, 2)
  IN IF SegmentMissing(encodedHeader) \/ SegmentMissing(encodedPayload)
     THEN Throw(<<"Invalid JWT format">>)
     ELSE IF ~Decodable(encodedHeader) \/ ~Decodable(encodedPayload)
     THEN Throw(<<"SyntaxError">>)
     ELSE Ok([header |-> encodedHeader.body, payload |-> encodedPayload.body])

\* a binding test that accepts every token that parses, whoever it names
validateJWTUserAddress_AnyIssuer(jwt, expectedAddress) == parseJWT(jwt).ok

\* the try block of validateJWTUserAddress
validateJWTUserAddressTry(jwt, expectedAddress) ==
  LET parsed == parseJWT(jwt)
  IN IF parsed.ok
     THEN validateDIDPKHAddressCall(parsed.value.payload.iss, expectedAddress)
     ELSE parsed

\* a validateJWTUserAddress without its catch
validateJWTUserAddressCall_NoCatch(jwt, expectedAddress) ==
  validateJWTUserAddressTry(jwt, expectedAddress)

\* the outcome of a call of validateJWTUserAddress: catch { return false }
validateJWTUserAddressCall(jwt, expectedAddress) ==
  LET tried == validateJWTUserAddressTry(jwt, expectedAddress)
  IN IF tried.ok THEN tried ELSE Ok(FALSE)

\* validateJWTUserAddress(jwt, expectedAddress): false on any parse error
validateJWTUserAddress(jwt, expectedAddress) ==
  validateJWTUserAddressCall(jwt, expectedAddress).value

\* base64urlDecode(encodedSignature).length
SignatureLength(seg) == IF seg.enc = "sig" THEN seg.body.len ELSE 0

\* verifyES256KJWT(jwt) of jwt.ts, at time t
\* for (const recoveryParam of [0, 1])
RecoveryParams_ZeroOnly == {0}

RecoveryParams == {0, 1}

\* a verifier that decodes the signature before it looks at exp
verifyES256KJWT_LengthFirst(jwt, t) ==
  LET encodedHeader == Segment(jwt, 1)
      encodedPayload == Segment(jwt, 2)
      encodedSignature == Segment(jwt, 3)
      header == encodedHeader.body
      payload == encodedPayload.body
      signerAddress == LastSegment(payload.iss)
      recovered(v) == recoverAddress(<<encodedHeader, encodedPayload>>,
                                     encodedSignature.body, v)
  IN IF \/ SegmentMissing(encodedHeader)
        \/ SegmentMissing(encodedPayload)
        \/ SegmentMissing(encodedSignature)
     THEN Throw(<<"Invalid JWT format">>)
     ELSE IF ~Decodable(encodedHeader) \/ ~Decodable(encodedPayload)
     THEN Throw(<<"SyntaxError">>)
     ELSE IF header.alg # "ES256K"
     THEN Throw(<<"Unsupported algorithm: ", header.alg>>)
     ELSE IF payload.iss = UndefinedStr
     THEN Throw(<<"TypeError">>)
     ELSE IF ~StartsWithDidPrefix(payload.iss) \/ payload.iss # payload.sub
     THEN Throw(<<"Invalid DID format in JWT">>)
     ELSE IF ~isAddress(signerAddress)
     THEN Throw(<<"Invalid address in JWT DID">>)
     ELSE IF encodedSignature.enc = "garbage"
     THEN Throw(<<"InvalidCharacterError">>)
     ELSE IF SignatureLength(encodedSignature) # 64
     THEN Throw(<<"Invalid signature length">>)
     ELSE IF payload.exp < t
     THEN Ok([header |-> header, payload |-> payload, valid |-> FALSE])
     ELSE Ok([header |-> header, payload |-> payload,
              valid |-> \E recoveryParam \in RecoveryParams :
                          ToLowerCase(recovered(recoveryParam + 27))
                            = ToLowerCase(signerAddress)])

verifyES256KJWT(jwt, t) ==
  LET encodedHeader == Segment(jwt, 1)
      encodedPayload == Segment(jwt, 2)
      encodedSignature == Segment(jwt, 3)
      header == encodedHeader.body
      payload == encodedPayload.body
      signerAddress == LastSegment(payload.iss)
      recovered(v) == recoverAddress(<<encodedHeader, encodedPayload>>,
                                     encodedSignature.body, v)
  IN IF \/ SegmentMissing(encodedHeader)
        \/ SegmentMissing(encodedPayload)
        \/ SegmentMissing(encodedSignature)
     THEN Throw(<<"Invalid JWT format">>)
     ELSE IF ~Decodable(encodedHeader) \/ ~Decodable(encodedPayload)
     THEN Throw(<<"SyntaxError">>)
     ELSE IF header.alg # "ES256K"
     THEN Throw(<<"Unsupported algorithm: ", header.alg>>)
     ELSE IF payload.iss = UndefinedStr
     THEN Throw(<<"TypeError">>)
     ELSE IF ~StartsWithDidPrefix(payload.iss) \/ payload.iss # payload.sub
     THEN Throw(<<"Invalid DID format in JWT">>)
     ELSE IF ~isAddress(signerAddress)
     THEN Throw(<<"Invalid address in JWT DID">>)
     ELSE IF payload.exp < t
     THEN Ok([header |-> header, payload |-> payload, valid |-> FALSE])
     ELSE IF encodedSignature.enc = "garbage"
     THEN Throw(<<"InvalidCharacterError">>)
     ELSE IF SignatureLength(encodedSignature) # 64
     THEN Throw(<<"Invalid signature length">>)
     ELSE Ok([header |-> header, payload |-> payload,
              valid |-> \E recoveryParam \in RecoveryParams :
                          ToLowerCase(recovered(recoveryParam + 27))
                            = ToLowerCase(signerAddress)])

\* no function applied yet
NoFx == [fn |-> "none"]

\* the web app is not running
NoStorage == [session |-> FALSE]
NoAccess == [pc |-> "unmounted"]

(***************************************************************************)
(* Sandbox action programs: their verification functions                   *)
(***************************************************************************)
\* the three programs shipped: litAction.ts (plain) and the two of
\* litActionEnhanced.ts
Programs == {"litActionCode", "litActionCodeWithES256K", "litActionCodeEnhanced"}
EnhancedPrograms == {"litActionCodeWithES256K", "litActionCodeEnhanced"}

RecoversTo(signingInput, sig, expectedAddress) ==
  \E v \in {27, 28} :
    ToLowerCase(recoverAddress(signingInput, sig, v)) = ToLowerCase(expectedAddress)

\* verifyES256KJWT(jwt, expectedAddress) of the action programs, at time t
LaVerifyES256KJWT(jwt, expectedAddress, t) ==
  LET encodedHeader == Segment(jwt, 1)
      encodedPayload == Segment(jwt, 2)
      encodedSignature == Segment(jwt, 3)
      header == encodedHeader.body
      payload == encodedPayload.body
  IN IF \/ SegmentMissing(encodedHeader)
        \/ SegmentMissing(encodedPayload)
        \/ SegmentMissing(encodedSignature)
     THEN Throw(<<"Invalid JWT format">>)
     ELSE IF ~Decodable(encodedHeader) \/ ~Decodable(encodedPayload)
     THEN Throw(<<"SyntaxError">>)
     ELSE IF header.alg # "ES256K"
     THEN Throw(<<"Unsupported algorithm: ", header.alg>>)
     ELSE IF payload.iss = UndefinedStr
     THEN Throw(<<"TypeError">>)
     ELSE IF ~StartsWithDidPrefix(payload.iss) \/ payload.iss # payload.sub
     THEN Throw(<<"Invalid DID format in JWT">>)
     ELSE IF ToLowerCase(LastSegment(payload.iss)) # ToLowerCase(expectedAddress)
     THEN Throw(<<"JWT signer does not match expected address">>)
     ELSE IF payload.exp < t
     THEN Throw(<<"JWT expired">>)
     ELSE IF encodedSignature.enc = "garbage"
     THEN Throw(<<"InvalidCharacterError">>)
     ELSE IF SignatureLength(encodedSignature) # 64
     THEN Throw(<<"Invalid signature length">>)
     ELSE IF ~RecoversTo(<<encodedHeader, encodedPayload>>, encodedSignature.body,
                         expectedAddress)
     THEN Throw(<<"Invalid JWT signature">>)
     ELSE Ok([header |-> header, payload |-> payload, valid |-> TRUE])

\* resolveDIDWeb: what the fetch of https://<domain>/.well-known/did.json gave
NetworkError == [status |-> "network-error", doc |-> <<>>]
HttpError == [status |-> "404", doc |-> <<>>]
Fetched(methods) == [status |-> "200", doc |-> methods]

LaResolveDIDWeb(response) ==
  IF response.status = "network-error" THEN Throw(<<"TypeError: fetch failed">>)
  ELSE IF response.status # "200"
  THEN Throw(<<"Failed to fetch DID document: ", response.status>>)
  ELSE Ok(response.doc)

Ed25519Type == "Ed25519VerificationKey2018"
ControllerSuffix == "#controller"
Method(id, type, jwk) == [id |-> id, type |-> type, publicKeyJwk |-> jwk]

\* method.id.endsWith('#controller')  /  method.id.indexOf('#controller') !== -1
EndsWithController(id) == id # <<>> /\ id[Len(id)] = ControllerSuffix
ContainsController(id) == \E i \in 1..Len(id) : id[i] = ControllerSuffix

IdSelects(program, id, keyId) ==
  \/ id = keyId
  \/ IF program = "litActionCodeEnhanced" THEN ContainsController(id)
     ELSE EndsWithController(id)

\* extractPublicKey(didDocument, keyId): 0 stands for an absent publicKeyJwk
LaExtractPublicKey(program, methods, keyId) ==
  LET hits == {i \in 1..Len(methods) :
                 /\ IdSelects(program, methods[i].id, keyId)
                 /\ methods[i].type = Ed25519Type
                 /\ methods[i].publicKeyJwk # 0}
  IN IF hits = {} THEN Throw(<<"Key ">> \o keyId \o <<" not found in DID document">>)
     ELSE Ok(methods[CHOOSE i \in hits : \A j \in hits : i <= j].publicKeyJwk)

\* crypto.subtle.verify('Ed25519', publicKey, signature, header.payload)
Ed25519Verify(publicKey, seg, signingInput) ==
  /\ seg.enc = "sig"
  /\ seg.body.len = 64
  /\ seg.body.by = publicKey
  /\ seg.body.over = signingInput

\* verifyJWTWithEdDSA, up to the fetch: parse the token and test the algorithm
LaParseCredentialJWT(jwt) ==
  LET headerB64 == Segment(jwt, 1)
      payloadB64 == Segment(jwt, 2)
  IN IF SegmentMissing(headerB64) \/ SegmentMissing(payloadB64)
     THEN Throw(<<"TypeError">>)
     ELSE IF ~Decodable(headerB64) \/ ~Decodable(payloadB64)
     THEN Throw(<<"SyntaxError">>)
     ELSE IF headerB64.body.alg # "EdDSA"
     THEN Throw(<<"Unsupported algorithm">>)
     ELSE Ok([header |-> headerB64.body, payload |-> payloadB64.body])

\* verifyJWTWithEdDSA, after the fetch returned `response`, at time t
LaVerifyFetched(program, jwt, issuerDID, response, t) ==
  LET parsed == LaParseCredentialJWT(jwt).value
      header == parsed.header
      payload == parsed.payload
      didDocument == LaResolveDIDWeb(response)
      keyId == IF header.kid # <<>> THEN header.kid ELSE issuerDID \o <<ControllerSuffix>>
      key == LaExtractPublicKey(program, didDocument.value, keyId)
      signatureB64 == Segment(jwt, 3)
  IN IF ~didDocument.ok THEN didDocument
     ELSE IF ~key.ok THEN key
     ELSE IF SegmentMissing(signatureB64) THEN Throw(<<"TypeError">>)
     ELSE IF ~Ed25519Verify(key.value, signatureB64, <<Segment(jwt, 1), Segment(jwt, 2)>>)
     THEN Throw(<<"Invalid JWT signature">>)
     ELSE IF payload.exp # 0 /\ payload.exp < t THEN Throw(<<"JWT expired">>)
     ELSE IF payload.nbf # 0 /\ payload.nbf > t THEN Throw(<<"JWT not yet valid">>)
     ELSE Ok([valid |-> TRUE, payload |-> payload, header |-> header,
              issuer |-> payload.iss])

\* requirements.claims && requirements.claims.githubHandle is truthy
HandleRequired(requirements) ==
  LET h == requirements.claims.githubHandle
  IN \/ h.kind = "array"
     \/ h.kind = "single" /\ ~Falsy(h.items[1])

\* Array.isArray(h) ? h : [h]
RequiredHandles(requirements) == requirements.claims.githubHandle.items

\* validateCredentialClaims(jwtPayload, requirements, userAddress) at time t
LaValidateCredentialClaims(jwtPayload, requirements, userAddress, t) ==
  LET vc == jwtPayload.vc
      handle == vc.evidence.handle
  IN IF ~vc.present THEN Throw(<<"No verifiable credential found in JWT">>)
     ELSE IF requirements.credentialType \notin vc.type
     THEN Throw(<<"Required credential type ", requirements.credentialType, " not found">>)
     ELSE IF jwtPayload.iss # requirements.issuer
     THEN Throw(<<"Credential issuer does not match requirements">>)
     ELSE IF vc.credentialSubject.id = <<>>
     THEN Throw(<<"No credential subject found">>)
     ELSE IF ToLowerCase(LastSegment(vc.credentialSubject.id)) # ToLowerCase(userAddress)
     THEN Throw(<<"Credential subject does not match user address">>)
     ELSE IF /\ HandleRequired(requirements)
             /\ (Falsy(handle) \/ ~ListIncludes(RequiredHandles(requirements), handle))
     THEN Throw(<<"GitHub handle requirement not met. Required: ">>)
     ELSE IF /\ requirements.claims.minIssuanceAge # 0
             /\ vc.issuanceDate < t - requirements.claims.minIssuanceAge
     THEN Throw(<<"Credential is too old">>)
     ELSE Ok(TRUE)

\* Lit.Actions.decryptAndCombine: the plaintext of the ciphertext when the
\* hash is the one produced with it, an error otherwise
Ciphertext(plain) == [plain |-> plain]
HashOf(plain) == [hashOf |-> plain]
decryptAndCombine(ciphertext, dataToEncryptHash) ==
  IF dataToEncryptHash = HashOf(ciphertext.plain) THEN Ok(ciphertext.plain)
  ELSE Throw(<<"Failed to decrypt">>)

(***************************************************************************)
(* Sandbox action programs: execution                                      *)
(*                                                                         *)
(* la.pc is the step about to run; la.log lists the checks passed so far,  *)
(* la.fetches and la.decrypts count the calls of fetch and of              *)
(* decryptAndCombine, la.responses lists the calls of setResponse.         *)
(***************************************************************************)
NoParams == [userSignedJWT |-> <<>>, userAddress |-> Lx(""), operationPurpose |-> "",
             credentialRequirements |-> NoRequirement, credentialJWT |-> <<>>,
             ciphertext |-> Ciphertext(""), dataToEncryptHash |-> HashOf("")]

LaIdle ==
  [code |-> "none", pc |-> "idle", params |-> NoParams, es256k |-> <<>>,
   parsed |-> <<>>, response |-> NetworkError, cred |-> <<>>, log |-> <<>>,
   fetches |-> 0, decrypts |-> 0, secret |-> "", responses |-> <<>>]

\* the first step of a program
LaEntry(program) ==
  IF program \in EnhancedPrograms THEN "verifyUser" ELSE "credParse"

LaStarted(program, params) ==
  [LaIdle EXCEPT !.code = program, !.pc = LaEntry(program), !.params = params]

\* a catch block that sets no response
LaCatch_Silent(state, message) == [state EXCEPT !.pc = "done"]

\* the lexemes of the programs' messages in which a word occurs
LexemesWith(word) ==
  CASE word = "ES256K" -> {"ES256K"}
    [] word = "GitHub" -> {"GitHubVerification",
                           "GitHub handle requirement not met. Required: "}
    [] word = "decrypt" -> {"decrypt", "Failed to decrypt",
                            "Failed to decrypt: nodes unreachable"}

\* e.message.includes(word)
Includes(message, word) == \E i \in DOMAIN message : message[i] \in LexemesWith(word)

\* errorType of the enhanced programs' catch block
ErrorType(message) ==
  IF Includes(message, "ES256K") THEN "user_jwt_verification"
  ELSE IF Includes(message, "GitHub") THEN "github_credential_verification"
  ELSE IF Includes(message, "decrypt") THEN "decryption_error"
  ELSE "general_error"

\* } catch (e) { Lit.Actions.setResponse({success: false, error: e.message ...}) }
LaCatch(state, message) ==
  [state EXCEPT !.pc = "done",
                !.responses =
                  Append(@, IF state.code \in EnhancedPrograms
                            THEN [success |-> FALSE, error |-> message, secret |-> "",
                                  errorType |-> ErrorType(message)]
                            ELSE [success |-> FALSE, error |-> message, secret |-> ""])]

LaPass(state, check, nextPc) ==
  [state EXCEPT !.pc = nextPc, !.log = Append(@, check)]

\* step 1: verifyES256KJWT(userSignedJWT, userAddress)
LaVerifyUser ==
  /\ la.pc = "verifyUser"
  /\ LET r == LaVerifyES256KJWT(la.params.userSignedJWT, la.params.userAddress, now)
     IN la' = IF r.ok THEN [LaPass(la, "es256k", "purpose") EXCEPT !.es256k = r.value]
              ELSE LaCatch(la, r.error)
  /\ UNCHANGED notLa

\* step 2: es256kResult.payload.purpose !== operationPurpose
\* a purpose test that accepts either purpose
PurposeMatches_Either(payload, operationPurpose) ==
  payload.purpose \in {"encrypt", "decrypt"}

PurposeMatches(payload, operationPurpose) == payload.purpose = operationPurpose

LaCheckPurpose ==
  /\ la.pc = "purpose"
  /\ la' = IF PurposeMatches(la.es256k.payload, la.params.operationPurpose)
           THEN LaPass(la, "purpose", "requirements")
           ELSE LaCatch(la, <<"JWT purpose mismatch. Expected: ", la.params.operationPurpose,
                              ", Got: ", la.es256k.payload.purpose>>)
  /\ UNCHANGED notLa

\* step 3: JSON.stringify(jwtCredReqs) !== JSON.stringify(credentialRequirements)
\* a requirement test that accepts every requirement
RequirementsMatch_Any(payload, credentialRequirements) ==
  payload.credential_requirements = payload.credential_requirements

RequirementsMatch(payload, credentialRequirements) ==
  payload.credential_requirements = credentialRequirements

LaCheckRequirements ==
  /\ la.pc = "requirements"
  /\ la' = IF RequirementsMatch(la.es256k.payload, la.params.credentialRequirements)
           THEN LaPass(la, "requirements", "audience")
           ELSE LaCatch(la, <<"JWT credential requirements do not match operation requirements">>)
  /\ UNCHANGED notLa

\* step 4: es256kResult.payload.aud !== "lit-protocol-encryption"
\* an audience test that accepts every audience
AudienceMatches_Any(payload) == payload.aud = payload.aud

AudienceMatches(payload) == payload.aud = Audience

LaCheckAudience ==
  /\ la.pc = "audience"
  /\ la' = IF AudienceMatches(la.es256k.payload)
           THEN LaPass(la, "audience", "credParse")
           ELSE LaCatch(la, <<"Invalid JWT audience: ", la.es256k.payload.aud>>)
  /\ UNCHANGED notLa

\* step 5, first part: verifyJWTWithEdDSA decodes the credential token
LaParseCredential ==
  /\ la.pc = "credParse"
  /\ LET r == LaParseCredentialJWT(la.params.credentialJWT)
     IN la' = IF r.ok THEN [la EXCEPT !.pc = "fetch", !.parsed = r.value]
              ELSE LaCatch(la, r.error)
  /\ UNCHANGED notLa

(***************************************************************************)
(* Orchestrator: credentials, bundles and the state of a call              *)
(***************************************************************************)
\* ParsedCredential: the token and the fields the caller read out of it
ParsedCredential(jwt, issuer, subjectId, handle, issuanceDate) ==
  [jwt |-> jwt, issuer |-> issuer, credentialSubject |-> [id |-> subjectId],
   handle |-> handle, issuanceDate |-> issuanceDate]

\* null, as returned by findMatchingCredential
NoCredential == ParsedCredential(<<>>, <<>>, <<>>, StringItem(<<>>), 0)

\* loadCredentials(credentials): credentials || []
loadCredentials(credentials) == credentials

\* cred.credentialSubject.id.includes(userAddress.toLowerCase())
IdIncludes(id, lowered) ==
  \E i \in 1..Len(id) :
    /\ id[i].key >= 0
    /\ id[i].key = lowered.key
    /\ id[i].form \in {"lower", "lower+"}

\* the predicate of credentials.find(...) at time t
CredentialMatches(cred, requirements, userAddress, t) ==
  /\ cred.issuer = requirements.issuer
  /\ cred.credentialSubject.id # <<>>
  /\ IdIncludes(cred.credentialSubject.id, ToLowerCase(userAddress))
  /\ HandleRequired(requirements) =>
       /\ ~Falsy(cred.handle)
       /\ ListIncludes(RequiredHandles(requirements), cred.handle)
  /\ requirements.claims.minIssuanceAge # 0 =>
       ~(cred.issuanceDate < t - requirements.claims.minIssuanceAge)

\* a matcher that returns the last credential of the list that matches
findMatchingCredential_Last(credentials, requirements, userAddress, t) ==
  LET hits == {i \in 1..Len(credentials) :
                 CredentialMatches(credentials[i], requirements, userAddress, t)}
  IN IF hits = {} THEN NoCredential
     ELSE credentials[CHOOSE i \in hits : \A j \in hits : i >= j]

\* findMatchingCredential(credentials, requirements, userAddress): the first
\* credential of the list that matches, or null
findMatchingCredential(credentials, requirements, userAddress, t) ==
  LET hits == {i \in 1..Len(credentials) :
                 CredentialMatches(credentials[i], requirements, userAddress, t)}
  IN IF hits = {} THEN NoCredential
     ELSE credentials[CHOOSE i \in hits : \A j \in hits : i <= j]

\* the encrypted bundle; mock is metadata?.mock of the credentials-only variant
Bundle(ciphertext, dataToEncryptHash, requirements, userSignedJWT, userAddress, mock) ==
  [ciphertext |-> ciphertext, dataToEncryptHash |-> dataToEncryptHash,
   credentialRequirements |-> requirements, userSignedJWT |-> userSignedJWT,
   userAddress |-> userAddress, mock |-> mock]

NoBundle == Bundle(Ciphertext(""), HashOf(""), NoRequirement, <<>>, Lx(""), FALSE)

\* the token "mock.jwt.token": three segments that decode to no JSON
MockSeg(text) == [enc |-> "garbage", body |-> <<text>>]
MockJWT == <<MockSeg("mock"), MockSeg("jwt"), MockSeg("token")>>
\* a test that takes no token for the mock token
IsMockJWT_Never(jwt) == jwt # jwt

IsMockJWT(jwt) ==
  /\ Len(jwt) = 3
  /\ \A i \in 1..3 : jwt[i].enc = "garbage" /\ jwt[i].body = MockJWT[i].body

Pending == [status |-> "pending", bundle |-> NoBundle, response |-> <<>>, error |-> <<>>]
Returned(bundle, response) ==
  [status |-> "returned", bundle |-> bundle, response |-> response, error |-> <<>>]
Threw(error) == [status |-> "threw", bundle |-> NoBundle, response |-> <<>>, error |-> error]

\* call.fn names the function called, call.pc the statement it is at;
\* call.trace lists what the call has done so far
NoCall ==
  [fn |-> "none", pc |-> "idle", wallet |-> 0, secret |-> "",
   requirements |-> NoRequirement, bundle |-> NoBundle, pool |-> <<>>,
   userAddress |-> Lx(""), jwt |-> <<>>, matching |-> NoCredential,
   client |-> "unset", outcome |-> Pending, trace |-> <<>>]

\* a wallet that gives its address in lower case
WalletAddress_Lower(key) == Addr(key, "lower")

\* userWallet.address: ethers gives the checksummed form
WalletAddress(key) == Addr(key, "checksum")

(***************************************************************************)
(* Inputs of the policy engine                                             *)
(***************************************************************************)
EnvValues ==
  { Undefined,
    Defined(<<>>),
    Defined(<<IssuerRebase>>),
    Defined(<<IssuerRebase, COMMA, IssuerTiny>>),
    Defined(<<SP, IssuerTiny, SP, COMMA, COMMA, SP, IssuerRebase>>),
    Defined(<<IssuerRebase, ".evil.com", COMMA, SP>>) }

Runtimes == {"browser", "node", "other"}

IssuerInputs ==
  { <<IssuerRebase>>, <<IssuerTiny>>, <<IssuerEvil>>,
    <<IssuerRebase, ".evil.com">>,       \* extends a trusted issuer
    <<"x", IssuerTiny>>,                 \* contains a trusted issuer
    <<IssuerTiny, SP>>,                  \* trusted issuer with trailing blank
    <<>> }

TypeInputs == {GitHubVerification, "TwitterVerification", "githubverification"}

HandleInputs ==
  { NoHandle,
    OneHandle(StringItem(<<"alice">>)),
    OneHandle(StringItem(<<>>)),
    OneHandle(StringItem(<<SP, SP>>)),
    OneHandle(OtherItem),
    OneHandle(TruthyOtherItem),
    HandleList(<<>>),
    HandleList(<<StringItem(<<"alice">>), StringItem(<<"bob">>)>>),
    HandleList(<<StringItem(<<"alice">>), StringItem(<<>>)>>),
    HandleList(<<StringItem(<<SP>>), StringItem(<<"bob">>)>>),
    HandleList(<<StringItem(<<"alice">>), TruthyOtherItem>>) }

PolicyRequirements ==
  { Requirement(i, t, h, 0) : i \in IssuerInputs, t \in TypeInputs, h \in HandleInputs }

NoOutcome == [ok |-> FALSE, value |-> <<>>, error |-> <<"not called">>]

(***************************************************************************)
(* Specification of the policy engine                                      *)
(***************************************************************************)
PolicyInit ==
  /\ processEnv \in EnvValues
  /\ runtime \in Runtimes
  /\ polReq = NoRequirement
  /\ polOut = NoOutcome
  /\ polCalls = 0
  /\ now = Epoch
  /\ la = LaIdle
  /\ call = NoCall
  /\ fx = NoFx
  /\ storage = NoStorage
  /\ access = NoAccess

ValidateRequirements ==
  /\ polCalls < MaxPolCalls
  /\ fx.fn = "none"
  /\ \E r \in PolicyRequirements :
       /\ polReq' = r
       /\ polOut' = validateGithubCredentialRequirements(runtime, processEnv, r)
  /\ polCalls' = polCalls + 1
  /\ UNCHANGED <<processEnv, runtime, now, la, call, fx, appVars>>

\* validateTrustedIssuer(issuer), called up to twice for the same issuer;
\* fx.first keeps the answer of the first call
ValidateTrustedIssuer ==
  /\ polCalls = 0
  /\ \/ /\ fx.fn = "none"
        /\ \E issuer \in IssuerInputs :
             LET answer == validateTrustedIssuer(runtime, processEnv, issuer)
             IN fx' = [fn |-> "validateTrustedIssuer", issuer |-> issuer, calls |-> 1,
                       changed |-> FALSE, first |-> answer, out |-> answer]
     \/ /\ fx.fn = "validateTrustedIssuer" /\ fx.calls = 1
        /\ fx' = [fx EXCEPT !.calls = 2,
                            !.out = validateTrustedIssuer(runtime, processEnv, fx.issuer)]
  /\ UNCHANGED <<polVars, now, la, call, appVars>>

\* process.env.TRUSTED_ISSUERS is assigned, or deleted, by some code of the
\* process between two calls
SetEnvironment ==
  /\ runtime = "node"
  /\ polCalls = 0
  /\ fx.fn = "validateTrustedIssuer" /\ fx.calls = 1 /\ ~fx.changed
  /\ \E e \in EnvValues \ {processEnv} : processEnv' = e
  /\ fx' = [fx EXCEPT !.changed = TRUE]
  /\ UNCHANGED <<runtime, polReq, polOut, polCalls, now, la, call, appVars>>

PolicyNext ==
  \/ ValidateRequirements
  \/ ValidateTrustedIssuer
  \/ SetEnvironment

SpecPolicy == PolicyInit /\ [][PolicyNext]_vars

(***************************************************************************)
(* What the network serves and what callers hand to the programs           *)
(***************************************************************************)
Keys == 1..NumKeys

\* signing keys of the credential issuers; any other issuer is an attacker's
IssuerKey(issuer) ==
  IF issuer = <<IssuerRebase>> THEN 101
  ELSE IF issuer = <<IssuerTiny>> THEN 102
  ELSE 666

GenuineDocument(issuer) ==
  <<Method(issuer \o <<ControllerSuffix>>, Ed25519Type, IssuerKey(issuer))>>

\* the answers a fetch of the issuer's DID document can get
FetchResponses(issuer) ==
  { NetworkError, HttpError, Fetched(GenuineDocument(issuer)),
    Fetched(<<Method(issuer \o <<"#key-1">>, "JsonWebKey2020", IssuerKey(issuer))>>) }

Alice == StringItem(<<"alice">>)
Bob == StringItem(<<"bob">>)

ReqRebase == Requirement(<<IssuerRebase>>, GitHubVerification, OneHandle(Alice), 0)
ReqTiny == Requirement(<<IssuerTiny>>, GitHubVerification, HandleList(<<Alice, Bob>>), 0)

SubjectDID(address) == DidPrefix \o <<Lx("1"), address>>

\* a credential token signed with key signKey
CredentialJWT(signKey, alg, issuer, subjectId, handle, hasVc, exp, nbf, issued) ==
  LET header == JsonSeg([alg |-> alg, typ |-> "JWT", kid |-> <<>>])
      payload == JsonSeg([iss |-> issuer, sub |-> subjectId, exp |-> exp, nbf |-> nbf,
                          vc |-> [present |-> hasVc,
                                  type |-> {"VerifiableCredential", GitHubVerification},
                                  credentialSubject |-> [id |-> subjectId],
                                  evidence |-> [handle |-> handle],
                                  issuanceDate |-> issued]])
  IN <<header, payload, SigSeg(signKey, 0, <<header, payload>>, 64)>>

GoodCredential(issuer, key, handle) ==
  CredentialJWT(IssuerKey(issuer), "EdDSA", issuer, SubjectDID(Addr(key, "lower")),
                handle, TRUE, 0, 0, Epoch - 1)

CredentialInputs ==
  { GoodCredential(<<IssuerRebase>>, k, h) : k \in Keys, h \in {Alice, Bob} }
  \cup
  { GoodCredential(<<IssuerTiny>>, 1, Alice),
    \* signed by somebody else than the issuer it names
    CredentialJWT(666, "EdDSA", <<IssuerRebase>>, SubjectDID(Addr(1, "lower")),
                  Alice, TRUE, 0, 0, Epoch - 1),
    \* expired
    CredentialJWT(101, "EdDSA", <<IssuerRebase>>, SubjectDID(Addr(1, "lower")),
                  Alice, TRUE, Epoch - 1, 0, Epoch - 1),
    \* another algorithm
    CredentialJWT(101, "ES256K", <<IssuerRebase>>, SubjectDID(Addr(1, "lower")),
                  Alice, TRUE, 0, 0, Epoch - 1),
    \* no vc member
    CredentialJWT(101, "EdDSA", <<IssuerRebase>>, SubjectDID(Addr(1, "lower")),
                  Alice, FALSE, 0, 0, Epoch - 1),
    <<GarbageSeg>> }

\* a user-proof token whose signature was made by signerKey, whatever it says
Resign(signerKey, jwt, par, len) ==
  <<jwt[1], jwt[2], SigSeg(signerKey, par, <<jwt[1], jwt[2]>>, len)>>

UserFields(aud, purpose, requirements) ==
  [aud |-> aud, purpose |-> purpose, resource |-> ResourceName,
   credential_requirements |-> requirements]

WithPayload(jwt, payload) == <<jwt[1], JsonSeg(payload), jwt[3]>>
WithHeader(jwt, header) == <<JsonSeg(header), jwt[2], jwt[3]>>

UserJWTInputs ==
  LET good == createDecryptionJWT(1, ReqRebase, Epoch, 0, 0)
      body == good[2].body
  IN { Resign(s, signES256KJWT(i, UserFields(Audience, p, ReqRebase),
                               ExpirationMinutes, Epoch, 0, 0), 0, 64) :
         s \in Keys, i \in Keys, p \in {"encrypt", "decrypt"} }
     \cup
     { createDecryptionJWT(1, ReqRebase, Epoch, 0, 1),
       createDecryptionJWT(1, ReqTiny, Epoch, 0, 0),
       signES256KJWT(1, UserFields("other-audience", "decrypt", ReqRebase),
                     ExpirationMinutes, Epoch, 0, 0),
       \* already expired when minted (ttl of -1)
       signES256KJWT(1, UserFields(Audience, "decrypt", ReqRebase), -1, Epoch, 0, 0),
       \* payload changed after signing
       WithPayload(createEncryptionJWT(1, ReqRebase, Epoch, 0, 0), body),
       \* signed as it stands by the holder of key 1, with odd contents
       Resign(1, WithHeader(good, [alg |-> "none", typ |-> "JWT", kid |-> <<>>]), 0, 64),
       Resign(1, WithPayload(good, [body EXCEPT !.sub = SubjectDID(Addr(2, "checksum"))]), 0, 64),
       Resign(1, WithPayload(good, [body EXCEPT !.iss = UndefinedStr]), 0, 64),
       Resign(1, WithPayload(good, [body EXCEPT !.iat = -1]), 0, 64),
       Resign(1, good, 0, 63),
       <<good[1], good[2]>>,
       <<good[1], good[2], GarbageSeg>>,
       <<good[1], GarbageSeg, good[3]>> }

UserAddressInputs == {Addr(1, "lower"), Addr(1, "checksum")} \cup {Addr(k, "checksum") : k \in Keys}

Secrets == {"s1", "s2"}

ActionParams ==
  { [userSignedJWT |-> u, userAddress |-> a, operationPurpose |-> p,
     credentialRequirements |-> r, credentialJWT |-> c,
     ciphertext |-> Ciphertext("s1"), dataToEncryptHash |-> HashOf("s1")] :
      u \in UserJWTInputs, a \in UserAddressInputs, p \in {"encrypt", "decrypt"},
      r \in {ReqRebase, ReqTiny}, c \in CredentialInputs }

\* a resolveDIDWeb that fetches again after a failed fetch
LaFetch_Retry ==
  /\ \/ la.pc = "fetch"
     \/ la.pc = "credVerify" /\ la.response.status # "200" /\ la.fetches < 2
  /\ \E response \in FetchResponses(la.params.credentialRequirements.issuer) :
       la' = [la EXCEPT !.pc = "credVerify", !.response = response, !.fetches = @ + 1]
  /\ UNCHANGED notLa

\* step 5, second part: resolveDIDWeb fetches the issuer's DID document
LaFetch ==
  /\ la.pc = "fetch"
  /\ \E response \in FetchResponses(la.params.credentialRequirements.issuer) :
       la' = [la EXCEPT !.pc = "credVerify", !.response = response, !.fetches = @ + 1]
  /\ UNCHANGED notLa

\* step 5, third part: key selection, signature, exp and nbf
LaVerifyCredential ==
  /\ la.pc = "credVerify"
  /\ LET r == LaVerifyFetched(la.code, la.params.credentialJWT,
                              la.params.credentialRequirements.issuer, la.response, now)
     IN la' = IF r.ok THEN [LaPass(la, "eddsa", "claims") EXCEPT !.cred = r.value]
              ELSE LaCatch(la, r.error)
  /\ UNCHANGED notLa

\* step 6: validateCredentialClaims
LaValidateClaims ==
  /\ la.pc = "claims"
  /\ LET r == LaValidateCredentialClaims(la.cred.payload, la.params.credentialRequirements,
                                         la.params.userAddress, now)
     IN la' = IF r.ok THEN LaPass(la, "claims", "decrypt") ELSE LaCatch(la, r.error)
  /\ UNCHANGED notLa

\* step 7: Lit.Actions.decryptAndCombine, which the nodes may also fail
LaDecrypt ==
  /\ la.pc = "decrypt"
  /\ \E nodesAnswer \in BOOLEAN :
       LET r == IF nodesAnswer
                THEN decryptAndCombine(la.params.ciphertext, la.params.dataToEncryptHash)
                ELSE Throw(<<"Failed to decrypt: nodes unreachable">>)
           called == [la EXCEPT !.decrypts = @ + 1]
       IN la' = IF r.ok THEN [called EXCEPT !.pc = "respond", !.secret = r.value]
                ELSE LaCatch(called, r.error)
  /\ UNCHANGED notLa

\* step 8: Lit.Actions.setResponse with the secret; formatting the report
\* throws a RangeError when a date of the user token is no number
LaRespond ==
  /\ la.pc = "respond"
  /\ la' = IF la.code \in EnhancedPrograms /\ la.es256k.payload.iat < 0
           THEN LaCatch(la, <<"RangeError: Invalid time value">>)
           ELSE [la EXCEPT !.pc = "done",
                           !.responses = Append(@, [success |-> TRUE, error |-> <<>>,
                                                    secret |-> la.secret])]
  /\ UNCHANGED notLa

LaStep ==
  \/ LaVerifyUser
  \/ LaCheckPurpose
  \/ LaCheckRequirements
  \/ LaCheckAudience
  \/ LaParseCredential
  \/ LaFetch
  \/ LaVerifyCredential
  \/ LaValidateClaims
  \/ LaDecrypt
  \/ LaRespond

(***************************************************************************)
(* Specification of an action program run on parameters of any caller      *)
(***************************************************************************)
ActionInit ==
  /\ processEnv = Undefined
  /\ runtime = "browser"
  /\ polReq = NoRequirement
  /\ polOut = NoOutcome
  /\ polCalls = 0
  /\ now = Epoch
  /\ call = NoCall
  /\ fx = NoFx
  /\ storage = NoStorage
  /\ access = NoAccess
  /\ \E program \in Programs, params \in ActionParams : la = LaStarted(program, params)

ActionNext == LaStep

SpecAction == ActionInit /\ [][ActionNext]_vars

(***************************************************************************)
(* Orchestrator: encryptToCredentialWithJWT                                *)
(***************************************************************************)
\* everything but the call of the host application
notCall == <<polVars, now, la, fx, appVars>>

\* the nonce generateNonce draws for a token minted now; tokens minted
\* earlier carry nonce 0
FreshNonce == 1

Advance(nextPc, event) == [call EXCEPT !.pc = nextPc, !.trace = Append(@, event)]

\* throw inside the try block: the catch rethrows, the finally block runs
Fail(error) == [call EXCEPT !.pc = "finally", !.outcome = Threw(error)]

NetworkFailure(what) == <<"Error: ", what, " failed">>

EncryptRequirements ==
  { ReqRebase, ReqTiny,
    Requirement(<<IssuerRebase>>, GitHubVerification, NoHandle, 0),
    Requirement(<<IssuerEvil>>, GitHubVerification, OneHandle(Alice), 0),
    Requirement(<<IssuerRebase, ".evil.com">>, GitHubVerification, OneHandle(Alice), 0),
    Requirement(<<IssuerRebase>>, "TwitterVerification", OneHandle(Alice), 0),
    Requirement(<<IssuerRebase>>, GitHubVerification, OneHandle(StringItem(<<>>)), 0),
    Requirement(<<IssuerRebase>>, GitHubVerification,
                HandleList(<<Alice, StringItem(<<SP>>)>>), 0) }

\* encryptToCredentialWithJWT(secret, credentialRequirements, userWallet)
CallEncrypt ==
  /\ call.pc = "idle"
  /\ \E secret \in Secrets, requirements \in EncryptRequirements, wallet \in Keys :
       call' = [NoCall EXCEPT !.fn = "encrypt", !.pc = "validate", !.secret = secret,
                              !.requirements = requirements, !.wallet = wallet]
  /\ UNCHANGED notCall

\* validateGithubCredentialRequirements(credentialRequirements)
EncValidate ==
  /\ call.pc = "validate"
  /\ LET r == validateGithubCredentialRequirements(runtime, processEnv, call.requirements)
     IN call' = IF r.ok THEN Advance("sign", "validate") ELSE Fail(r.error)
  /\ UNCHANGED notCall

\* const userSignedJWT = await createEncryptionJWT(userWallet, credentialRequirements)
EncSign ==
  /\ call.fn = "encrypt" /\ call.pc = "sign"
  /\ \E par \in {0, 1} :
       call' = [Advance("connect", "sign") EXCEPT
                  !.jwt = createEncryptionJWT(call.wallet, call.requirements, now,
                                              FreshNonce, par)]
  /\ UNCHANGED notCall

\* litNodeClient = new LitNodeClient(...); await litNodeClient.connect()
Connect ==
  /\ call.fn \in {"encrypt", "decrypt"} /\ call.pc = "connect"
  /\ \E connected \in BOOLEAN :
       LET created == [Advance("contracts", "connect") EXCEPT !.client = "created"]
       IN call' = IF connected THEN created
                  ELSE [created EXCEPT !.pc = "finally",
                                       !.outcome = Threw(NetworkFailure("connect"))]
  /\ UNCHANGED notCall

\* await litContracts.connect()
ContractsConnect ==
  /\ call.pc = "contracts"
  /\ \E connected \in BOOLEAN :
       call' = IF connected THEN Advance("capacity", "contracts")
               ELSE Fail(NetworkFailure("contracts"))
  /\ UNCHANGED notCall

\* getEnv("LIT_CAPACITY_CREDIT_TOKEN_ID") in environment rt with the variable set to e
getEnvCapacityCredit(rt, e) ==
  IF rt = "browser"
  THEN IF e.defined THEN Ok(e.value) ELSE Ok(<<>>)
  ELSE IF rt = "node"
  THEN IF ~e.defined \/ e.value = <<>>
       THEN Throw(<<"Node: ", "LIT_CAPACITY_CREDIT_TOKEN_ID",
                    " ENV is not defined, please define it in the .env file">>)
       ELSE Ok(e.value)
  ELSE Ok(<<>>)

\* capacityTokenId: the configured one, or a newly minted one
CapacityCredit ==
  /\ call.pc = "capacity"
  /\ \E e \in {Undefined, Defined(<<"7">>)}, minted \in BOOLEAN :
       LET configured == getEnvCapacityCredit(runtime, e)
       IN call' = IF ~configured.ok THEN Fail(configured.error)
                  ELSE IF configured.value = <<>> /\ ~minted
                  THEN Fail(NetworkFailure("mintCapacityCreditsNFT"))
                  ELSE Advance("delegation", "capacity")
  /\ UNCHANGED notCall

\* await litNodeClient.createCapacityDelegationAuthSig(...)
Delegation ==
  /\ call.pc = "delegation"
  /\ \E signed \in BOOLEAN :
       call' = IF signed
               THEN Advance(IF call.fn = "encrypt" THEN "encryptString" ELSE "session",
                            "delegation")
               ELSE Fail(NetworkFailure("createCapacityDelegationAuthSig"))
  /\ UNCHANGED notCall

\* await encryptString({accessControlConditions, dataToEncrypt: secret}, litNodeClient)
\* and generateResourceString; return the bundle
EncryptString ==
  /\ call.pc = "encryptString"
  /\ \E encrypted \in BOOLEAN :
       call' = IF encrypted
               THEN [Advance("finally", "encryptString") EXCEPT
                       !.outcome = Returned(Bundle(Ciphertext(call.secret), HashOf(call.secret),
                                                   call.requirements, call.jwt,
                                                   WalletAddress(call.wallet), FALSE),
                                            <<>>)]
               ELSE [Advance("finally", "encryptString") EXCEPT
                       !.outcome = Threw(NetworkFailure("encryptString"))]
  /\ UNCHANGED notCall

\* a finally block that leaves the client connected
Finally_NoDisconnect ==
  /\ call.pc = "finally"
  /\ call' = [call EXCEPT !.pc = "done"]
  /\ UNCHANGED notCall

\* finally { if (litNodeClient) litNodeClient.disconnect() }
Finally ==
  /\ call.pc = "finally"
  /\ call' = IF call.client = "unset" THEN [call EXCEPT !.pc = "done"]
             ELSE [Advance("done", "disconnect") EXCEPT !.client = "disconnected"]
  /\ UNCHANGED notCall

(***************************************************************************)
(* Orchestrator: decryptFromCredentialsWithJWT (wallet variant)            *)
(***************************************************************************)
\* a time before the call, so long ago that tokens minted then have expired
Earlier == Epoch - ExpirationMinutes - 1

\* the token a bundle may hold for requirement r
StoredJWTInputs(r) ==
  { createEncryptionJWT(k, r, Earlier, 0, 0) : k \in Keys }
  \cup
  { createDecryptionJWT(1, r, Earlier, 0, 0),
    \* names account 1, signed by account 2
    Resign(2, createEncryptionJWT(1, r, Earlier, 0, 0), 0, 64),
    <<GarbageSeg>> }

BundleAddressInputs == {Addr(1, "checksum"), Addr(1, "lower"), Addr(NumKeys, "checksum")}

BundleInputs ==
  { Bundle(Ciphertext("s1"), HashOf("s1"), ReqRebase, t, a, FALSE) :
      t \in StoredJWTInputs(ReqRebase), a \in BundleAddressInputs }
  \cup
  { Bundle(Ciphertext("s2"), HashOf("s2"), ReqTiny,
           createEncryptionJWT(1, ReqTiny, Earlier, 0, 0), Addr(1, "checksum"), FALSE) }

\* the fields a caller reads out of a credential token
ParsedOf(jwt) ==
  LET payload == jwt[2].body
  IN ParsedCredential(jwt, payload.iss, payload.vc.credentialSubject.id,
                      payload.vc.evidence.handle, payload.vc.issuanceDate)

PoolInputs ==
  { <<>>,
    <<ParsedOf(GoodCredential(<<IssuerRebase>>, 1, Alice))>>,
    <<ParsedOf(GoodCredential(<<IssuerRebase>>, NumKeys, Alice))>>,
    <<ParsedOf(GoodCredential(<<IssuerRebase>>, 1, Bob)),
      ParsedOf(GoodCredential(<<IssuerTiny>>, 1, Bob)),
      ParsedOf(GoodCredential(<<IssuerRebase>>, 1, Alice))>>,
    \* a credential that has expired, kept in front of the one that renewed it
    <<ParsedOf(CredentialJWT(101, "EdDSA", <<IssuerRebase>>, SubjectDID(Addr(1, "lower")),
                             Alice, TRUE, Epoch - 1, 0, Epoch - 3)),
      ParsedOf(GoodCredential(<<IssuerRebase>>, 1, Alice))>>,
    \* signed by somebody else than the issuer it names
    <<ParsedOf(CredentialJWT(666, "EdDSA", <<IssuerRebase>>, SubjectDID(Addr(1, "lower")),
                             Alice, TRUE, 0, 0, Epoch - 1))>>,
    \* the subject written with the checksummed address
    <<ParsedOf(CredentialJWT(101, "EdDSA", <<IssuerRebase>>, SubjectDID(Addr(1, "checksum")),
                             Alice, TRUE, 0, 0, Epoch - 1))>> }

CallDecrypt ==
  /\ call.pc = "idle"
  /\ \E bundle \in BundleInputs, wallet \in Keys, pool \in PoolInputs :
       call' = [NoCall EXCEPT !.fn = "decrypt", !.pc = "address", !.bundle = bundle,
                              !.wallet = wallet, !.pool = pool]
  /\ UNCHANGED notCall

\* decryptFromCredentialsWithJWT called with the bundle that
\* encryptToCredentialWithJWT has returned
CallDecryptReturned ==
  /\ call.fn = "encrypt" /\ call.pc = "done" /\ call.outcome.status = "returned"
  /\ \E wallet \in Keys, pool \in PoolInputs :
       call' = [NoCall EXCEPT !.fn = "decrypt", !.pc = "address",
                              !.bundle = call.outcome.bundle,
                              !.wallet = wallet, !.pool = pool]
  /\ UNCHANGED notCall

\* userWallet.address.toLowerCase() !== encryptedData.userAddress.toLowerCase()
DecCheckAddress ==
  /\ call.fn = "decrypt" /\ call.pc = "address"
  /\ call' = IF ToLowerCase(WalletAddress(call.wallet)) # ToLowerCase(call.bundle.userAddress)
             THEN Fail(<<"User wallet does not match the encrypted data owner">>)
             ELSE Advance("storedProof", "address")
  /\ UNCHANGED notCall

\* !validateJWTUserAddress(encryptedData.userSignedJWT, userWallet.address)
DecCheckStoredJWT ==
  /\ call.pc = "storedProof"
  /\ call' = IF ~validateJWTUserAddress(call.bundle.userSignedJWT, WalletAddress(call.wallet))
             THEN Fail(<<"Stored user JWT does not match user address">>)
             ELSE Advance("sign", "storedProof")
  /\ UNCHANGED notCall

\* const decryptionJWT = await createDecryptionJWT(userWallet, credentialRequirements)
DecSign ==
  /\ call.fn = "decrypt" /\ call.pc = "sign"
  /\ \E par \in {0, 1} :
       call' = [Advance("match", "sign") EXCEPT
                  !.jwt = createDecryptionJWT(call.wallet, call.bundle.credentialRequirements,
                                              now, FreshNonce, par)]
  /\ UNCHANGED notCall

\* if (!matchingCredential) throw
MatchFound(matchingCredential) == matchingCredential # NoCredential

NoMatchingCredential == <<"No matching credential found for the specified requirements">>

DecMatch ==
  /\ call.fn = "decrypt" /\ call.pc = "match"
  /\ LET matchingCredential ==
           findMatchingCredential(loadCredentials(call.pool),
                                  call.bundle.credentialRequirements,
                                  WalletAddress(call.wallet), now)
         matched == [Advance("connect", "match") EXCEPT !.matching = matchingCredential]
     IN call' = IF MatchFound(matchingCredential) THEN matched
                ELSE [matched EXCEPT !.pc = "finally", !.outcome = Threw(NoMatchingCredential)]
  /\ UNCHANGED notCall

\* await litNodeClient.getSessionSigs(...)
SessionSigs ==
  /\ call.pc = "session"
  /\ \E signed \in BOOLEAN :
       call' = IF signed THEN Advance("executeJs", "session")
               ELSE Fail(NetworkFailure("getSessionSigs"))
  /\ UNCHANGED notCall

\* jsParams built with the stored token in place of the fresh one
JsParams_Stored(bundle, walletAddress, matchingCredential, decryptionJWT) ==
  [ciphertext |-> bundle.ciphertext, dataToEncryptHash |-> bundle.dataToEncryptHash,
   credentialJWT |-> matchingCredential.jwt,
   credentialRequirements |-> bundle.credentialRequirements,
   userAddress |-> walletAddress, userSignedJWT |-> bundle.userSignedJWT,
   operationPurpose |-> "decrypt"]

JsParams(bundle, walletAddress, matchingCredential, decryptionJWT) ==
  [ciphertext |-> bundle.ciphertext, dataToEncryptHash |-> bundle.dataToEncryptHash,
   credentialJWT |-> matchingCredential.jwt,
   credentialRequirements |-> bundle.credentialRequirements,
   userAddress |-> walletAddress, userSignedJWT |-> decryptionJWT,
   operationPurpose |-> "decrypt"]

\* await litNodeClient.executeJs({sessionSigs, code: litActionCodeEnhanced, jsParams})
ExecuteJs ==
  /\ call.pc = "executeJs"
  /\ \E reached \in BOOLEAN :
       IF reached
       THEN /\ la' = LaStarted("litActionCodeEnhanced",
                               JsParams(call.bundle, WalletAddress(call.wallet),
                                        call.matching, call.jwt))
            /\ call' = Advance("awaitJs", "executeJs")
       ELSE /\ la' = la
            /\ call' = Fail(NetworkFailure("executeJs"))
  /\ UNCHANGED <<polVars, now, fx, appVars>>

\* return litActionResult
DecReturn ==
  /\ call.pc = "awaitJs"
  /\ la.pc = "done"
  /\ call' = [call EXCEPT !.pc = "finally",
                          !.outcome = Returned(NoBundle, la.responses[Len(la.responses)])]
  /\ UNCHANGED notCall

(***************************************************************************)
(* Orchestrator: decryptFromCredentialsWithJWT (credentials-only variant)  *)
(***************************************************************************)
CredentialsOnlyBundles ==
  { Bundle(Ciphertext("s1"), HashOf("s1"), ReqRebase,
           createEncryptionJWT(1, ReqRebase, Earlier, 0, 0), Addr(1, "checksum"), mock) :
      mock \in BOOLEAN }
  \cup
  { Bundle(Ciphertext("s1"), HashOf("s1"), ReqRebase, MockJWT, Addr(1, "checksum"), FALSE) }

\* the optional third argument; Lx("") stands for an omitted one
OptionalAddressInputs == {Lx(""), Addr(1, "lower"), Addr(NumKeys, "checksum")}

CallDecryptCredentialsOnly ==
  /\ call.pc = "idle"
  /\ \E bundle \in CredentialsOnlyBundles, pool \in PoolInputs,
        userAddress \in OptionalAddressInputs :
       call' = [NoCall EXCEPT !.fn = "decryptCredentialsOnly", !.pc = "mock",
                              !.bundle = bundle, !.pool = pool, !.userAddress = userAddress]
  /\ UNCHANGED notCall

\* encryptedData.metadata?.mock || encryptedData.userSignedJWT === "mock.jwt.token":
\* return atob(ciphertext), which throws when the text is no base64
CredOnlyMock ==
  /\ call.pc = "mock"
  /\ IF call.bundle.mock \/ IsMockJWT(call.bundle.userSignedJWT)
     THEN \E wellFormed \in BOOLEAN :
            call' = [Advance("done", "mock") EXCEPT
                       !.outcome =
                         Returned(NoBundle,
                                  IF wellFormed
                                  THEN [success |-> TRUE, error |-> <<>>,
                                        secret |-> call.bundle.ciphertext.plain]
                                  ELSE [success |-> FALSE,
                                        error |-> <<"Failed to decode mock encrypted content">>,
                                        secret |-> ""])]
     ELSE call' = [call EXCEPT !.pc = "address"]
  /\ UNCHANGED notCall

\* if (userAddress && userAddress.toLowerCase() !== ...) console.warn(...)
CredOnlyAddress ==
  /\ call.fn = "decryptCredentialsOnly" /\ call.pc = "address"
  /\ call' = IF /\ call.userAddress # Lx("")
                /\ ToLowerCase(call.userAddress) # ToLowerCase(call.bundle.userAddress)
             THEN Advance("match", "warn")
             ELSE [call EXCEPT !.pc = "match"]
  /\ UNCHANGED notCall

RealDecryptionUnsupported ==
  <<"Real Lit Protocol decryption requires wallet operations. ",
    "This browser package is designed for credentials-only decryption. ",
    "Please use mock encrypted content for testing.">>

\* findMatchingCredential(credentials, requirements, userAddress || encryptedData.userAddress),
\* then one of the two errors; the catch rethrows
CredOnlyMatch ==
  /\ call.fn = "decryptCredentialsOnly" /\ call.pc = "match"
  /\ LET address == IF call.userAddress # Lx("") THEN call.userAddress
                    ELSE call.bundle.userAddress
         matchingCredential ==
           findMatchingCredential(loadCredentials(call.pool),
                                  call.bundle.credentialRequirements, address, now)
     IN call' = [Advance("done", "match") EXCEPT
                   !.matching = matchingCredential,
                   !.outcome = IF MatchFound(matchingCredential)
                               THEN Threw(RealDecryptionUnsupported)
                               ELSE Threw(NoMatchingCredential)]
  /\ UNCHANGED notCall

(***************************************************************************)
(* Specification of the host application: one call of encrypt or decrypt   *)
(***************************************************************************)
Init ==
  /\ processEnv \in {Undefined, Defined(<<IssuerRebase>>)}
  /\ runtime \in Runtimes
  /\ polReq = NoRequirement
  /\ polOut = NoOutcome
  /\ polCalls = 0
  /\ now = Epoch
  /\ la = LaIdle
  /\ call = NoCall
  /\ fx = NoFx
  /\ storage = NoStorage
  /\ access = NoAccess

Next ==
  \/ CallEncrypt
  \/ EncValidate
  \/ EncSign
  \/ Connect
  \/ ContractsConnect
  \/ CapacityCredit
  \/ Delegation
  \/ EncryptString
  \/ Finally
  \/ CallDecrypt
  \/ CallDecryptReturned
  \/ DecCheckAddress
  \/ DecCheckStoredJWT
  \/ DecSign
  \/ DecMatch
  \/ SessionSigs
  \/ ExecuteJs
  \/ DecReturn
  \/ CallDecryptCredentialsOnly
  \/ CredOnlyMock
  \/ CredOnlyAddress
  \/ CredOnlyMatch
  \/ LaStep

Spec == Init /\ [][Next]_vars

(***************************************************************************)
(* Library functions applied to arguments of any caller                    *)
(***************************************************************************)
\* everything but the record of the function applied
notFx == <<polVars, now, la, call, appVars>>

AddressForms == {"checksum", "lower", "upper", "badmix", "short", "lower+"}
AddressInputs == { Addr(k, f) : k \in Keys, f \in AddressForms }
ChainIdInputs == {0, 1, 5, 10, 137, -1}

\* parseDIDPKH(createDIDPKH(address, chainId))
ApplyCreateThenParse ==
  /\ fx.fn = "none"
  /\ \E address \in AddressInputs, chainId \in ChainIdInputs :
       LET created == createDIDPKHOnChain(address, chainId)
       IN fx' = [fn |-> "createDIDPKH", address |-> address, chainId |-> chainId,
                 created |-> created,
                 out |-> IF created.ok THEN parseDIDPKH(created.value) ELSE created]
  /\ UNCHANGED notFx

DidInputs ==
  { createDIDPKHOnChain(Addr(1, f), c).value : f \in {"checksum", "lower"}, c \in {1, 137} }
  \cup { DidPrefix \o <<Lx("1"), Addr(k, f)>> : k \in Keys, f \in AddressForms }
  \cup
  { UndefinedStr, <<>>,
    DidPrefix \o <<Addr(1, "checksum")>>,                     \* no chain id
    DidPrefix \o <<Lx("010"), Addr(1, "checksum")>>,
    DidPrefix \o <<Lx("mainnet"), Addr(1, "checksum")>>,
    DidPrefix \o <<Lx("-1"), Addr(1, "checksum")>>,
    DidPrefix \o <<Lx("1"), Lx("x"), Addr(1, "checksum")>>,   \* a segment too many
    <<Lx("did"), Lx("web"), Lx("eip155"), Lx("1"), Addr(1, "checksum")>>,
    <<Lx("x")>> \o DidPrefix \o <<Lx("1"), Addr(1, "checksum")>> }

\* candidate addresses: account addresses in any writing, the empty string
\* and undefined
CandidateInputs == AddressInputs \cup {Addr(0, "checksum"), Lx(""), Lx("undefined")}

\* validateDIDPKHAddress(did, expectedAddress)
ApplyValidateDID ==
  /\ fx.fn = "none"
  /\ \E did \in DidInputs, expectedAddress \in CandidateInputs :
       fx' = [fn |-> "validateDIDPKHAddress", did |-> did, address |-> expectedAddress,
              parsed |-> parseDIDPKH(did),
              out |-> validateDIDPKHAddressCall(did, expectedAddress)]
  /\ UNCHANGED notFx

\* the fields of a user proof, and the same with members named iss, sub,
\* iat, exp and nonce added by the caller
TokenFieldInputs ==
  { UserFields(Audience, p, r) : p \in {"encrypt", "decrypt"}, r \in {ReqRebase, ReqTiny} }
  \cup
  { [aud |-> Audience, purpose |-> "decrypt", resource |-> ResourceName,
     credential_requirements |-> ReqRebase,
     iss |-> SubjectDID(Addr(k, "checksum")), sub |-> SubjectDID(Addr(k, "checksum")),
     iat |-> 0, exp |-> Epoch + 100, nonce |-> 7] : k \in Keys }

\* a token held by a caller: fx.origin tells how it came about
Held(jwt, signer, origin) ==
  [fn |-> origin, jwt |-> jwt, signer |-> signer, origin |-> origin,
   t |-> now, address |-> Lx(""), out |-> NoOutcome, ttl |-> 0, fields |-> <<>>]

TokenHeld == fx.fn \in {"signES256KJWT", "tamper", "extend", "given"}

\* signES256KJWT(wallet, payload, expirationMinutes)
ApplySign ==
  /\ fx.fn = "none"
  /\ \E wallet \in Keys, payload \in TokenFieldInputs, par \in {0, 1},
        expirationMinutes \in {ExpirationMinutes, 1, 0, -1} :
       fx' = [Held(signES256KJWT(wallet, payload, expirationMinutes, now, FreshNonce, par),
                   wallet, "signES256KJWT")
                EXCEPT !.ttl = expirationMinutes, !.fields = payload]
  /\ UNCHANGED notFx

\* what may stand in place of the signature segment of a signed token
OtherSignatures(jwt, signer) ==
  LET over == <<jwt[1], jwt[2]>>
  IN { SigSeg(k, par, over, 64) : k \in (Keys \cup {0}) \ {signer}, par \in {0, 1} }
     \cup
     { \* the signer's signature over another payload
       SigSeg(signer, jwt[3].body.par,
              <<jwt[1], JsonSeg([jwt[2].body EXCEPT !.nonce = 0])>>, 64),
       \* one byte dropped
       SigSeg(signer, jwt[3].body.par, over, 63),
       GarbageSeg }

\* somebody replaces the signature segment of a signed token
TamperSignature ==
  /\ fx.fn = "signES256KJWT"
  /\ \E sig \in OtherSignatures(fx.jwt, fx.signer) :
       fx' = Held(<<fx.jwt[1], fx.jwt[2], sig>>, fx.signer, "tamper")
  /\ UNCHANGED notFx

\* somebody appends a fourth segment to a signed token
AppendSegment ==
  /\ fx.fn = "signES256KJWT"
  /\ \E seg \in {GarbageSeg, fx.jwt[3]} :
       fx' = Held(Append(fx.jwt, seg), fx.signer, "extend")
  /\ UNCHANGED notFx

\* a token signed as it stands by account 1, naming `did` as iss and sub
TokenNaming(did) ==
  LET good == signES256KJWT(1, UserFields(Audience, "decrypt", ReqRebase),
                            ExpirationMinutes, Epoch, 0, 0)
  IN Resign(1, WithPayload(good, [good[2].body EXCEPT !.iss = did, !.sub = did]), 0, 64)

\* token strings that no signES256KJWT call returns
GivenTokens ==
  LET good == signES256KJWT(1, UserFields(Audience, "decrypt", ReqRebase),
                            ExpirationMinutes, Epoch, 0, 0)
      body == good[2].body
  IN { <<>>, <<good[1]>>, <<good[1], good[2]>>,
       <<good[1], good[2], EmptySeg>>,
       <<EmptySeg, good[2], good[3]>>,
       <<good[1], EmptySeg, good[3]>>,
       <<good[1], EmptySeg, good[3], good[3]>>,
       <<good[1], GarbageSeg, good[3]>>,
       <<GarbageSeg, good[2], good[3]>>,
       Resign(1, WithHeader(good, [alg |-> "none", typ |-> "JWT", kid |-> <<>>]), 0, 64),
       Resign(1, WithPayload(good, [body EXCEPT !.sub = SubjectDID(Addr(NumKeys, "checksum"))]),
              0, 64),
       Resign(1, WithPayload(good, [body EXCEPT !.iss = UndefinedStr]), 0, 64),
       TokenNaming(DidPrefix),
       TokenNaming(DidPrefix \o <<Addr(1, "checksum")>>),
       TokenNaming(DidPrefix \o <<Lx("mainnet"), Addr(1, "lower")>>),
       TokenNaming(DidPrefix \o <<Lx("1"), Lx("x"), Addr(1, "checksum")>>),
       TokenNaming(DidPrefix \o <<Lx("1"), Addr(1, "upper")>>),
       TokenNaming(DidPrefix \o <<Lx("1"), Addr(1, "badmix")>>),
       TokenNaming(DidPrefix \o <<Lx("1"), Addr(1, "short")>>),
       TokenNaming(DidPrefix \o <<Lx("1"), Lx("")>>),
       TokenNaming(<<Lx("did"), Lx("web"), Lx("eip155"), Lx("1"), Addr(1, "checksum")>>) }

\* a caller holds a token string of its own making
GiveToken ==
  /\ fx.fn = "none"
  /\ \E jwt \in GivenTokens : fx' = Held(jwt, 0, "given")
  /\ UNCHANGED notFx

\* how long after the token came about it is verified
VerifyDelays == {0, 1, ExpirationMinutes, ExpirationMinutes + 1}

\* verifyES256KJWT(jwt) of jwt.ts
ApplyVerify ==
  /\ TokenHeld
  /\ \E delay \in VerifyDelays :
       fx' = [fx EXCEPT !.fn = "verifyES256KJWT", !.t = now + delay,
                        !.out = verifyES256KJWT(fx.jwt, now + delay)]
  /\ UNCHANGED notFx

\* verifyES256KJWT(jwt, expectedAddress) of the action programs
ApplyLaVerify ==
  /\ TokenHeld
  /\ \E delay \in VerifyDelays, expectedAddress \in UserAddressInputs :
       fx' = [fx EXCEPT !.fn = "LaVerifyES256KJWT", !.t = now + delay,
                        !.address = expectedAddress,
                        !.out = LaVerifyES256KJWT(fx.jwt, expectedAddress, now + delay)]
  /\ UNCHANGED notFx

\* validateJWTUserAddress(jwt, expectedAddress)
ApplyValidateJWT ==
  /\ TokenHeld
  /\ \E expectedAddress \in CandidateInputs :
       fx' = [fx EXCEPT !.fn = "validateJWTUserAddress", !.address = expectedAddress,
                        !.out = validateJWTUserAddressCall(fx.jwt, expectedAddress)]
  /\ UNCHANGED notFx

\* a credential as a caller holds it: issued `age` before the epoch
HeldCredential(issuer, key, form, handle, age) ==
  ParsedOf(CredentialJWT(IssuerKey(issuer), "EdDSA", issuer, SubjectDID(Addr(key, form)),
                         handle, TRUE, 0, 0, Epoch - age))

MatcherCredentials ==
  { HeldCredential(i, k, "lower", h, 1) :
      i \in {<<IssuerRebase>>, <<IssuerTiny>>}, k \in Keys, h \in {Alice, Bob} }
  \cup
  { HeldCredential(<<IssuerRebase>>, 1, "lower", Alice, 5),
    HeldCredential(<<IssuerRebase>>, 1, "lower", Alice, 2),
    \* the subject written with the checksummed address
    HeldCredential(<<IssuerRebase>>, 1, "checksum", Alice, 1),
    \* no handle read out of the credential
    HeldCredential(<<IssuerRebase>>, 1, "lower", OtherItem, 1) }

\* pools of at most two credentials, and one of three
MatcherPools ==
  {<<>>}
  \cup { <<c>> : c \in MatcherCredentials }
  \cup { <<c1, c2>> : c1 \in MatcherCredentials, c2 \in MatcherCredentials }
  \cup { << HeldCredential(<<IssuerTiny>>, 1, "lower", Alice, 1),
            HeldCredential(<<IssuerRebase>>, 1, "lower", Bob, 1),
            HeldCredential(<<IssuerRebase>>, 1, "lower", Alice, 1) >> }

\* requirements as a caller may pass them, validated or not
MatcherRequirements ==
  { Requirement(i, GitHubVerification, h, a) :
      i \in {<<IssuerRebase>>, <<IssuerTiny>>},
      h \in {NoHandle, OneHandle(Alice), HandleList(<<Alice, Bob>>), HandleList(<<>>),
             OneHandle(StringItem(<<>>))},
      a \in {0, 2} }

\* findMatchingCredential(credentials, requirements, userAddress)
ApplyFindMatching ==
  /\ fx.fn = "none"
  /\ \E credentials \in MatcherPools, requirements \in MatcherRequirements,
        userAddress \in UserAddressInputs :
       fx' = [fn |-> "findMatchingCredential",
              credentials |-> credentials, requirements |-> requirements,
              userAddress |-> userAddress, t |-> now,
              out |-> findMatchingCredential(credentials, requirements, userAddress, now),
              credentialsAfter |-> credentials, requirementsAfter |-> requirements]
  /\ UNCHANGED notFx

\* payloads of credentials that passed the EdDSA verification
ClaimPayloadInputs ==
  { CredentialJWT(IssuerKey(i), "EdDSA", i, SubjectDID(Addr(k, "lower")), h, TRUE, 0, 0,
                  Epoch - age)[2].body :
      i \in {<<IssuerRebase>>, <<IssuerTiny>>}, k \in Keys, h \in {Alice, Bob},
      age \in {0, 1, 2, 5} }

\* validateCredentialClaims(jwtPayload, requirements, userAddress) of the
\* action programs
ApplyValidateClaims ==
  /\ fx.fn = "none"
  /\ \E jwtPayload \in ClaimPayloadInputs, requirements \in MatcherRequirements,
        userAddress \in UserAddressInputs :
       fx' = [fn |-> "validateCredentialClaims",
              jwtPayload |-> jwtPayload, requirements |-> requirements,
              userAddress |-> userAddress, t |-> now,
              out |-> LaValidateCredentialClaims(jwtPayload, requirements, userAddress, now)]
  /\ UNCHANGED notFx

\* credential tokens of the issuers: the subject written in lower case, with
\* the checksummed address or with a longer last piece, and one of another
\* credential type of the same issuer
AgreementCredentials ==
  LET token(i, k, form, h, age) ==
        CredentialJWT(IssuerKey(i), "EdDSA", i, SubjectDID(Addr(k, form)), h, TRUE, 0, 0,
                      Epoch - age)
      other(jwt) ==
        Resign(jwt[3].body.by,
               WithPayload(jwt, [jwt[2].body EXCEPT
                                   !.vc.type = {"VerifiableCredential", "TwitterVerification"}]),
               0, 64)
  IN { token(i, k, form, h, age) :
         i \in {<<IssuerRebase>>, <<IssuerTiny>>}, k \in Keys,
         form \in {"lower", "checksum", "lower+"}, h \in {Alice, Bob}, age \in {1, 5} }
     \cup
     { other(token(<<IssuerRebase>>, 1, "lower", Alice, 1)) }

\* findMatchingCredential on the parsed credential and validateCredentialClaims
\* on the payload of its token, for the same requirement and address
ApplyMatchAndValidate ==
  /\ fx.fn = "none"
  /\ \E jwt \in AgreementCredentials, requirements \in MatcherRequirements,
        userAddress \in UserAddressInputs :
       fx' = [fn |-> "matchAndValidate", jwt |-> jwt, requirements |-> requirements,
              userAddress |-> userAddress, t |-> now,
              matched |-> MatchFound(findMatchingCredential(<<ParsedOf(jwt)>>, requirements,
                                                            userAddress, now)),
              accepted |-> LaValidateCredentialClaims(jwt[2].body, requirements,
                                                      userAddress, now).ok]
  /\ UNCHANGED notFx

\* an exp or nbf claim of a credential: absent, or a number.  In the payload
\* record an absent claim and the number 0 are both the number 0, as both
\* are falsy for the verifier
TimeClaimInputs ==
  { [carried |-> FALSE, at |-> 0] }
  \cup { [carried |-> TRUE, at |-> n] : n \in {0, Epoch - 1, Epoch, Epoch + 1} }

KeyOne == "#key-1"

\* credential tokens that name IssuerRebase: signed by the issuer or by
\* somebody else, with or without a key-id hint, with any time claims
EdDSATokenInputs(exp, nbf) ==
  LET plain(k) == CredentialJWT(k, "EdDSA", <<IssuerRebase>>, SubjectDID(Addr(1, "lower")),
                                Alice, TRUE, exp.at, nbf.at, Epoch - 1)
      hinted(k) == Resign(k, WithHeader(plain(k), [alg |-> "EdDSA", typ |-> "JWT",
                                                  kid |-> <<IssuerRebase, KeyOne>>]), 0, 64)
  IN { plain(IssuerKey(<<IssuerRebase>>)), plain(666),
       hinted(IssuerKey(<<IssuerRebase>>)), hinted(666) }

\* verification methods an issuer's document may list
MethodInputs ==
  LET genuine == IssuerKey(<<IssuerRebase>>)
  IN { Method(<<IssuerRebase, ControllerSuffix>>, Ed25519Type, genuine),
       Method(<<IssuerRebase, KeyOne>>, Ed25519Type, genuine),
       Method(<<IssuerRebase, KeyOne>>, Ed25519Type, 666),
       \* '#controller' inside the id, not at its end
       Method(<<IssuerRebase, ControllerSuffix, "-old">>, Ed25519Type, 666),
       Method(<<IssuerRebase, ControllerSuffix>>, "JsonWebKey2020", genuine),
       Method(<<IssuerRebase, ControllerSuffix>>, Ed25519Type, 0) }

\* documents of at most two verification methods, and failed fetches
DocumentResponses ==
  { NetworkError, HttpError, Fetched(<<>>) }
  \cup { Fetched(<<m>>) : m \in MethodInputs }
  \cup { Fetched(<<m1, m2>>) : m1 \in MethodInputs, m2 \in MethodInputs }

\* verifyJWTWithEdDSA(jwt, issuerDID) of an action program, the fetch it
\* makes answered by `response`
ApplyVerifyEdDSA ==
  /\ fx.fn = "none"
  /\ \E program \in Programs, exp \in TimeClaimInputs, nbf \in TimeClaimInputs,
        response \in DocumentResponses :
       \E jwt \in EdDSATokenInputs(exp, nbf) :
         LET issuerDID == <<IssuerRebase>>
             parsed == LaParseCredentialJWT(jwt)
             kid == jwt[1].body.kid
             keyId == IF kid # <<>> THEN kid ELSE issuerDID \o <<ControllerSuffix>>
         IN fx' = [fn |-> "verifyJWTWithEdDSA", program |-> program, jwt |-> jwt,
                   issuerDID |-> issuerDID, response |-> response, t |-> now,
                   exp |-> exp, nbf |-> nbf, keyId |-> keyId,
                   key |-> LaExtractPublicKey(program, response.doc, keyId),
                   out |-> IF parsed.ok
                           THEN LaVerifyFetched(program, jwt, issuerDID, response, now)
                           ELSE parsed]
  /\ UNCHANGED notFx

LibraryInit ==
  /\ processEnv = Undefined
  /\ runtime = "browser"
  /\ polReq = NoRequirement
  /\ polOut = NoOutcome
  /\ polCalls = 0
  /\ now = Epoch
  /\ la = LaIdle
  /\ call = NoCall
  /\ fx = NoFx
  /\ storage = NoStorage
  /\ access = NoAccess

LibraryNext ==
  \/ ApplyCreateThenParse
  \/ ApplyValidateDID
  \/ ApplySign
  \/ TamperSignature
  \/ AppendSegment
  \/ GiveToken
  \/ ApplyVerify
  \/ ApplyLaVerify
  \/ ApplyFindMatching
  \/ ApplyValidateClaims
  \/ ApplyVerifyEdDSA
  \/ ApplyValidateJWT
  \/ ApplyMatchAndValidate

SpecLibrary == LibraryInit /\ [][LibraryNext]_vars

(***************************************************************************)
(* Web app: StorageManager, the TinyCloud store as primary storage with a  *)
(* local cache.  A stored value is absent, a credential list, or text that *)
(* does not parse.  Credentials are named by their ids.  Each call is      *)
(* followed through its awaits: the request reaches the store in one step  *)
(* and the call resumes in a later one.                                    *)
(***************************************************************************)
\* the two calls of the storage manager whose interleavings are followed
Callers == {"first", "second"}
CredIds == 1..3

Absent == [kind |-> "absent", list |-> <<>>]
Stored(list) == [kind |-> "list", list |-> list]
Corrupt == [kind |-> "corrupt", list |-> <<>>]
GetThrew == [kind |-> "threw", list |-> <<>>]

NoStorageCall ==
  [op |-> "none", arg |-> 0, pc |-> "idle", read |-> Absent, loaded |-> <<>>,
   toSave |-> <<>>, overlapped |-> FALSE, cacheAtStart |-> Absent, out |-> NoOutcome]

ConnectionRequired ==
  <<"TinyCloud connection required. Please sign in to TinyCloud to manage credentials.">>
SaveFailed == <<"SAVE_FAILED">>

\* a load that lets the error of the store pass to its caller
ProviderLoad_Throws(read) ==
  IF read.kind \in {"threw", "corrupt"} THEN GetThrew
  ELSE IF read.kind = "list" THEN read ELSE Absent

\* TinyCloudStorageProvider.load: null unless the store answers with a value
\* that parses; every error is caught
ProviderLoad(read) == IF read.kind = "list" THEN read ELSE Absent

\* LocalStorageCache.get: null when nothing is cached
CacheGet(cache) == IF cache.kind = "list" THEN cache.list ELSE <<>>

\* credentials.filter(cred => cred.id !== credentialId)
WithoutId(list, id) == SelectSeq(list, LAMBDA c : c # id)

InFlight(p) == storage.calls[p].pc \notin {"idle", "done"}

\* a call of loadCredentials, addCredential or removeCredential begins:
\* ensureTinyCloudAvailable, then the get request is sent
StartCall(p, op, arg) ==
  /\ storage.calls[p].pc = "idle"
  /\ LET begun == [NoStorageCall EXCEPT
                     !.op = op, !.arg = arg,
                     !.overlapped = \E q \in DOMAIN storage.calls : q # p /\ InFlight(q),
                     !.cacheAtStart = storage.cache]
     IN storage' = [storage EXCEPT !.calls[p] =
                      IF storage.session THEN [begun EXCEPT !.pc = "get"]
                      ELSE [begun EXCEPT !.pc = "done", !.out = Throw(ConnectionRequired)]]

StartLoadCredentials ==
  /\ \E p \in DOMAIN storage.calls : StartCall(p, "loadCredentials", 0)
  /\ UNCHANGED <<polVars, now, la, call, fx, access>>

StartAddCredential ==
  /\ \E p \in DOMAIN storage.calls, c \in CredIds \ {1} : StartCall(p, "addCredential", c)
  /\ UNCHANGED <<polVars, now, la, call, fx, access>>

StartRemoveCredential ==
  /\ \E p \in DOMAIN storage.calls, id \in {1, 2} : StartCall(p, "removeCredential", id)
  /\ UNCHANGED <<polVars, now, la, call, fx, access>>

\* this.tcw.storage.get(key) is answered: the stored text, or an error
StorageGet ==
  /\ \E p \in DOMAIN storage.calls :
       /\ storage.calls[p].pc = "get"
       /\ \E answered \in BOOLEAN :
            storage' = [storage EXCEPT !.calls[p].pc = "loaded",
                                       !.calls[p].read =
                                         IF answered THEN storage.store ELSE GetThrew]
  /\ UNCHANGED <<polVars, now, la, call, fx, access>>

\* loadCredentials resumes after provider.load: [] for null, otherwise the
\* cache is updated; the catch falls back to the cache.  addCredential and
\* removeCredential go on to saveCredentials, which sends the put request
LoadReturn ==
  /\ \E p \in DOMAIN storage.calls :
       /\ storage.calls[p].pc = "loaded"
       /\ LET c == storage.calls[p]
              result == ProviderLoad(c.read)
              credentials == IF result.kind = "threw" THEN CacheGet(storage.cache)
                             ELSE result.list
              cache == IF result.kind = "list" THEN Stored(result.list) ELSE storage.cache
              toSave == IF c.op = "addCredential" THEN Append(credentials, c.arg)
                        ELSE WithoutId(credentials, c.arg)
          IN storage' =
               [storage EXCEPT
                  !.cache = cache,
                  !.calls[p] =
                    IF c.op = "loadCredentials"
                    THEN [c EXCEPT !.pc = "done", !.loaded = credentials,
                                   !.out = Ok(credentials)]
                    ELSE [c EXCEPT !.pc = "put", !.loaded = credentials,
                                   !.toSave = toSave]]
  /\ UNCHANGED <<polVars, now, la, call, fx, access>>

\* this.tcw.storage.put(key, serialized) is answered: the value is stored,
\* or an error, which provider.save turns into SAVE_FAILED
StoragePut ==
  /\ \E p \in DOMAIN storage.calls :
       /\ storage.calls[p].pc = "put"
       /\ \E answered \in BOOLEAN :
            storage' =
              IF answered
              THEN [storage EXCEPT !.store = Stored(storage.calls[p].toSave),
                                   !.calls[p].pc = "stored"]
              ELSE [storage EXCEPT !.calls[p].pc = "done",
                                   !.calls[p].out = Throw(SaveFailed)]
  /\ UNCHANGED <<polVars, now, la, call, fx, access>>

\* saveCredentials resumes after provider.save: this.cache.set(key, credentials)
SaveReturn ==
  /\ \E p \in DOMAIN storage.calls :
       /\ storage.calls[p].pc = "stored"
       /\ storage' = [storage EXCEPT !.cache = Stored(storage.calls[p].toSave),
                                     !.calls[p].pc = "done",
                                     !.calls[p].out = Ok(<<>>)]
  /\ UNCHANGED <<polVars, now, la, call, fx, access>>

\* what the primary store and the cache may hold when the app starts
StoreValues == {Absent, Stored(<<>>), Stored(<<1>>), Corrupt}
CacheValues == {Absent, Stored(<<1>>)}

StorageInit ==
  /\ processEnv = Undefined
  /\ runtime = "browser"
  /\ polReq = NoRequirement
  /\ polOut = NoOutcome
  /\ polCalls = 0
  /\ now = Epoch
  /\ la = LaIdle
  /\ call = NoCall
  /\ fx = NoFx
  /\ access = NoAccess
  /\ \E session \in BOOLEAN, store \in StoreValues, cache \in CacheValues :
       storage = [session |-> session, store |-> store, cache |-> cache,
                  calls |-> [p \in Callers |-> NoStorageCall]]

StorageNext ==
  \/ StartLoadCredentials
  \/ StartAddCredential
  \/ StartRemoveCredential
  \/ StorageGet
  \/ LoadReturn
  \/ StoragePut
  \/ SaveReturn

SpecStorage == StorageInit /\ [][StorageNext]_vars

(***************************************************************************)
(* Web app: useContentAccess, the four-step content-access flow.  The      *)
(* button that calls accessContent is disabled while isAccessing, and the  *)
(* page is left once content has been decrypted.                           *)
(***************************************************************************)
MaxAccessCalls == 2

StepIds == <<"signature", "verification", "decryption", "complete">>

InitialSteps == [i \in 1..4 |-> "pending"]

\* setAccessSteps(prev => prev.map(step => step.id === id ? {...step, status} : step))
SetStep(steps, id, status) ==
  [i \in 1..4 |-> IF StepIds[i] = id THEN status ELSE steps[i]]

\* a catch block that leaves the loading step as it is
MarkLoadingAsError_None(steps) == steps

\* prev.map(step => step.status === 'loading' ? {...step, status: 'error'} : step)
MarkLoadingAsError(steps) ==
  [i \in 1..4 |-> IF steps[i] = "loading" THEN "error" ELSE steps[i]]

\* mockDecryptedContent[flow.id]: undefined for a flow without content
Flows == {"flow-1", "flow-2", "flow-unknown"}
MockDecryptedContent(flowId) == IF flowId = "flow-unknown" THEN "" ELSE flowId

\* what signMessage may end with: a signature, an Error, or a rejection with
\* a value that is no Error
SignOutcomes == {"signed", "Error", "other"}

\* err instanceof Error ? err.message : 'Access failed'
ErrorMessage(thrown) ==
  IF thrown = "other" THEN <<"Access failed">> ELSE <<thrown>>

\* the catch and finally blocks of accessContent
AccessCatch(thrown) ==
  [access EXCEPT !.pc = "idle", !.error = ErrorMessage(thrown),
                 !.accessSteps = MarkLoadingAsError(access.accessSteps),
                 !.isAccessing = FALSE]

\* accessContent(flow, selectedCredentialIds) up to its first await
AccessContent ==
  /\ access.pc = "idle"
  /\ ~access.isAccessing
  /\ access.decryptedContent = ""
  /\ access.calls < MaxAccessCalls
  /\ \E flow \in Flows, selected \in 0..2 :
       access' = [access EXCEPT !.pc = "signature", !.flow = flow, !.selected = selected,
                                !.calls = @ + 1, !.isAccessing = TRUE, !.error = <<>>,
                                !.accessSteps = SetStep(InitialSteps, "signature", "loading")]
  /\ UNCHANGED <<polVars, now, la, call, fx, storage>>

\* await signMessage(message) ends
SignMessage ==
  /\ access.pc = "signature"
  /\ \E outcome \in SignOutcomes :
       access' =
         IF outcome = "signed"
         THEN [access EXCEPT
                 !.pc = "verification",
                 !.accessSteps = SetStep(SetStep(@, "signature", "completed"),
                                         "verification", "loading")]
         ELSE AccessCatch(IF outcome = "Error" THEN "User rejected the request" ELSE "other")
  /\ UNCHANGED <<polVars, now, la, call, fx, storage>>

\* the verification timer fires
VerifyCredentials ==
  /\ access.pc = "verification"
  /\ access' =
       IF access.selected = 0 THEN AccessCatch("No credentials selected")
       ELSE [access EXCEPT
               !.pc = "decryption",
               !.accessSteps = SetStep(SetStep(@, "verification", "completed"),
                                       "decryption", "loading")]
  /\ UNCHANGED <<polVars, now, la, call, fx, storage>>

\* the decryption timer fires; cacheContent stores the content when a wallet
\* address is kept in localStorage
DecryptContent ==
  /\ access.pc = "decryption"
  /\ LET content == MockDecryptedContent(access.flow)
     IN access' =
          IF content = "" THEN AccessCatch("Content not found")
          ELSE [access EXCEPT
                  !.pc = "idle",
                  !.accessSteps = SetStep(SetStep(@, "decryption", "completed"),
                                          "complete", "completed"),
                  !.cached = IF access.walletAddress THEN content ELSE @,
                  !.decryptedContent = content,
                  !.isAccessing = FALSE]
  /\ UNCHANGED <<polVars, now, la, call, fx, storage>>

\* retryCurrentStep: the step in error goes back to pending
RetryCurrentStep ==
  /\ access.pc = "idle"
  /\ \E i \in 1..4 : access.accessSteps[i] = "error"
  /\ access' = [access EXCEPT
                  !.accessSteps = [i \in 1..4 |-> IF i = (CHOOSE k \in 1..4 : @[k] = "error"
                                                             /\ \A m \in 1..(k - 1) : @[m] # "error")
                                                 THEN "pending" ELSE @[i]],
                  !.error = <<>>]
  /\ UNCHANGED <<polVars, now, la, call, fx, storage>>

AccessInit ==
  /\ processEnv = Undefined
  /\ runtime = "browser"
  /\ polReq = NoRequirement
  /\ polOut = NoOutcome
  /\ polCalls = 0
  /\ now = Epoch
  /\ la = LaIdle
  /\ call = NoCall
  /\ fx = NoFx
  /\ storage = NoStorage
  /\ \E walletAddress \in BOOLEAN :
       access = [pc |-> "idle", flow |-> "", selected |-> 0, calls |-> 0,
                 accessSteps |-> InitialSteps, decryptedContent |-> "", cached |-> "",
                 isAccessing |-> FALSE, error |-> <<>>, walletAddress |-> walletAddress]

AccessNext ==
  \/ AccessContent
  \/ SignMessage
  \/ VerifyCredentials
  \/ DecryptContent
  \/ RetryCurrentStep

SpecAccess == AccessInit /\ [][AccessNext]_vars

(***************************************************************************)
(* Claims about the policy engine                                          *)
(***************************************************************************)
TrustListConfigured == getTrustedIssuers(runtime, processEnv).ok
ConfiguredTrustList == getTrustedIssuers(runtime, processEnv).value

NonBlankString(item) == item.isString /\ \E i \in 1..Len(item.chars) : item.chars[i] # SP

HandlesNonEmpty(h) ==
  /\ h.kind # "undefined"
  /\ h.items # <<>>
  /\ \A i \in 1..Len(h.items) : NonBlankString(h.items[i])

\* C9: with a trust list configured, validateGithubCredentialRequirements
\* throws an error starting "Untrusted issuer: <issuer>" for every issuer that
\* is not an exact member of the list (a trusted issuer with a suffix, prefix
\* or trailing blank included), and returns normally for every member when the
\* type is GitHubVerification and the handle claims are non-empty strings.
C9_TrustGate ==
  (polCalls > 0 /\ TrustListConfigured) =>
    /\ (\A i \in 1..Len(ConfiguredTrustList) : ConfiguredTrustList[i] # polReq.issuer)
         => /\ ~polOut.ok
            /\ StartsWith(polOut.error, <<"Untrusted issuer: ">> \o polReq.issuer)
    /\ ( /\ \E i \in 1..Len(ConfiguredTrustList) : ConfiguredTrustList[i] = polReq.issuer
         /\ polReq.credentialType = "GitHubVerification"
         /\ HandlesNonEmpty(polReq.claims.githubHandle) )
         => polOut.ok

C9_Witness ==
  /\ polCalls > 0
  /\ TrustListConfigured
  /\ ListIncludes(ConfiguredTrustList, <<IssuerRebase>>)
  /\ polReq.issuer = <<IssuerRebase, ".evil.com">>
  /\ polReq.credentialType = "GitHubVerification"
  /\ ~polOut.ok
  /\ StartsWith(polOut.error, <<"Untrusted issuer: ", IssuerRebase, ".evil.com">>)

\* C10: for a requirement whose issuer is trusted, every credentialType other
\* than the literal "GitHubVerification" is refused with the
\* invalid-credential-type error naming that type.
C10_UnsupportedType ==
  ( /\ polCalls > 0
    /\ TrustListConfigured
    /\ \E i \in 1..Len(ConfiguredTrustList) : ConfiguredTrustList[i] = polReq.issuer
    /\ polReq.credentialType # "GitHubVerification" )
  => /\ ~polOut.ok
     /\ polOut.error = <<"Invalid credential type: ", polReq.credentialType,
                         ". Only GitHubVerification is supported.">>

C10_Witness ==
  /\ polCalls > 0
  /\ polReq.issuer = <<IssuerTiny>>
  /\ polReq.credentialType = "githubverification"
  /\ HandlesNonEmpty(polReq.claims.githubHandle)
  /\ ~polOut.ok
  /\ polOut.error[1] = "Invalid credential type: "

(***************************************************************************)
(* Claims about the sandbox action programs                                *)
(***************************************************************************)
AllChecksInOrder == <<"es256k", "purpose", "requirements", "audience", "eddsa", "claims">>

\* the payload a token carries, when it has one
HasPayload(jwt) == Len(jwt) >= 2 /\ Decodable(jwt[2])
PayloadOf(jwt) == jwt[2].body

UserProofVerifies ==
  LaVerifyES256KJWT(la.params.userSignedJWT, la.params.userAddress, now).ok

CredentialVerifies ==
  /\ LaParseCredentialJWT(la.params.credentialJWT).ok
  /\ LaVerifyFetched(la.code, la.params.credentialJWT,
                     la.params.credentialRequirements.issuer, la.response, now).ok

ClaimsValidate ==
  LaValidateCredentialClaims(PayloadOf(la.params.credentialJWT),
                             la.params.credentialRequirements,
                             la.params.userAddress, now).ok

\* C1: in the enhanced programs decryptAndCombine is invoked only after the
\* user-proof verification, the purpose check, the requirement equality check,
\* the audience check, the credential verification and the claim validation
\* have all succeeded, in that order; when one of them fails it is not invoked.
C1_DecryptAfterAllChecks ==
  (la.code \in EnhancedPrograms /\ la.decrypts > 0) =>
    /\ la.decrypts = 1
    /\ la.log = AllChecksInOrder
    /\ UserProofVerifies
    /\ PayloadOf(la.params.userSignedJWT).purpose = la.params.operationPurpose
    /\ PayloadOf(la.params.userSignedJWT).credential_requirements
         = la.params.credentialRequirements
    /\ PayloadOf(la.params.userSignedJWT).aud = "lit-protocol-encryption"
    /\ CredentialVerifies
    /\ ClaimsValidate

C1_Witness ==
  /\ la.code \in EnhancedPrograms
  /\ la.pc = "done"
  /\ la.decrypts = 1
  /\ la.log = AllChecksInOrder
  /\ la.responses = <<[success |-> TRUE, error |-> <<>>, secret |-> "s1"]>>

\* C2: every action program shipped, the plain one included, invokes
\* decryptAndCombine only when both the user-proof token and the credential
\* token have been verified.
C2_BothProofsBeforeDecrypt ==
  la.decrypts > 0 =>
    /\ \E i \in 1..Len(la.log) : la.log[i] = "es256k"
    /\ \E i \in 1..Len(la.log) : la.log[i] = "eddsa"

\* C6: a validly signed, unexpired user-proof token whose purpose differs from
\* the operation's purpose makes the enhanced programs abort with the purpose
\* error, and nothing is decrypted.
C6_PurposeBinding ==
  ( /\ la.code \in EnhancedPrograms
    /\ HasPayload(la.params.userSignedJWT)
    /\ PayloadOf(la.params.userSignedJWT).purpose # la.params.operationPurpose )
  => /\ la.decrypts = 0
     /\ la.secret = ""
     /\ la.pc = "done" =>
          /\ Len(la.responses) = 1
          /\ ~la.responses[1].success
          /\ UserProofVerifies =>
               la.responses[1].error =
                 <<"JWT purpose mismatch. Expected: ", la.params.operationPurpose,
                   ", Got: ", PayloadOf(la.params.userSignedJWT).purpose>>

C6_Witness ==
  /\ la.code \in EnhancedPrograms
  /\ la.pc = "done"
  /\ la.params.userSignedJWT = createEncryptionJWT(1, ReqRebase, Epoch, 0, 0)
  /\ la.params.operationPurpose = "decrypt"
  /\ la.params.credentialRequirements = ReqRebase
  /\ la.params.credentialJWT = GoodCredential(<<IssuerRebase>>, 1, Alice)
  /\ la.log = <<"es256k">>
  /\ la.decrypts = 0
  /\ la.responses[1].error[1] = "JWT purpose mismatch. Expected: "

(***************************************************************************)
(* Claims about the orchestrators                                          *)
(***************************************************************************)
Did(event) == \E i \in 1..Len(call.trace) : call.trace[i] = event

Decrypting == call.fn \in {"decrypt", "decryptCredentialsOnly"}

\* the address of whoever is acting: the wallet's, or the address argument
\* of the credentials-only variant
ActingAddress ==
  IF call.fn = "decrypt" THEN WalletAddress(call.wallet)
  ELSE IF call.userAddress # Lx("") THEN call.userAddress
  ELSE call.bundle.userAddress

SameAccount(a, b) == a.key = b.key

\* the token names this account in a well-formed did:pkh issuer
StoredProofBinds(jwt, key) ==
  /\ Len(jwt) >= 2
  /\ jwt[1].enc = "json" /\ jwt[2].enc = "json"
  /\ LET iss == jwt[2].body.iss
     IN /\ Len(iss) = 5
        /\ SubSeq(iss, 1, 3) = DidPrefix
        /\ IsDigits(iss[4])
        /\ iss[5].key = key
        /\ iss[5].form \in {"checksum", "lower", "upper"}

\* C3: decrypt fails with the address-mismatch error whenever the acting
\* signer's address differs from bundle.userAddress, and then no token is
\* minted, no credential is matched and no external service is contacted.
C3_AddressMismatchFails ==
  (Decrypting /\ ~SameAccount(ActingAddress, call.bundle.userAddress)) =>
    /\ ~Did("sign") /\ call.jwt = <<>>
    /\ ~Did("match")
    /\ ~Did("connect") /\ call.client = "unset" /\ la.code = "none"
    /\ call.pc = "done" =>
         call.outcome = Threw(<<"User wallet does not match the encrypted data owner">>)

\* C4: the stored token is tested against the acting wallet's address before
\* the fresh token is signed: a decrypt that signs has passed the address
\* test and then the stored-proof test, in that order; for a bundle whose
\* stored token does not bind, nothing is ever signed and the call throws,
\* with the stored-proof error when the address test passed.
C4_StoredProofBeforeSigning ==
  call.fn = "decrypt" =>
    /\ Did("sign") =>
         /\ StoredProofBinds(call.bundle.userSignedJWT, call.wallet)
         /\ SubSeq(call.trace, 1, 3) = <<"address", "storedProof", "sign">>
    /\ ~StoredProofBinds(call.bundle.userSignedJWT, call.wallet) =>
         /\ ~Did("sign") /\ call.jwt = <<>>
         /\ call.outcome.status # "returned"
         /\ call.pc = "done" => call.outcome.status = "threw"
         /\ (call.pc = "done" /\ SameAccount(call.bundle.userAddress, WalletAddress(call.wallet)))
              => call.outcome = Threw(<<"Stored user JWT does not match user address">>)

C4_Witness ==
  /\ call.fn = "decrypt" /\ call.pc = "done"
  /\ call.wallet = 1
  /\ call.bundle.userAddress = Addr(1, "lower")
  /\ StoredProofBinds(call.bundle.userSignedJWT, NumKeys)
  /\ call.trace = <<"address">>
  /\ call.outcome = Threw(<<"Stored user JWT does not match user address">>)

\* C5: the userSignedJWT parameter of the sandbox action is the token minted
\* in this decrypt call, with purpose "decrypt", issued now by the acting
\* wallet; it is never the token stored in the bundle.
C5_FreshTokenToSandbox ==
  (call.fn = "decrypt" /\ la.code # "none") =>
    /\ SubSeq(call.trace, 1, 3) = <<"address", "storedProof", "sign">>
    /\ la.params.userSignedJWT = call.jwt
    /\ la.params.userSignedJWT # call.bundle.userSignedJWT
    /\ PayloadOf(la.params.userSignedJWT).purpose = "decrypt"
    /\ PayloadOf(la.params.userSignedJWT).iat = now
    /\ PayloadOf(la.params.userSignedJWT).nonce = FreshNonce
    /\ StoredProofBinds(la.params.userSignedJWT, call.wallet)
    /\ la.params.operationPurpose = "decrypt"

C5_Witness ==
  /\ call.fn = "decrypt"
  /\ la.decrypts = 1
  /\ PayloadOf(call.bundle.userSignedJWT).purpose = "decrypt"
  /\ la.params.userSignedJWT # call.bundle.userSignedJWT
  /\ PayloadOf(la.params.userSignedJWT).iat = Epoch

NoMatchInPool ==
  \A i \in 1..Len(call.pool) :
    ~CredentialMatches(call.pool[i], call.bundle.credentialRequirements, ActingAddress, now)

\* C7: decrypt fails whenever the pool holds no credential satisfying the
\* bundle's requirement for the signer's address (with the
\* no-matching-credential error once the pool has been searched); the
\* network client is then never connected and no sandbox action executed.
C7_NoMatchFails ==
  (Decrypting /\ NoMatchInPool) =>
    /\ ~Did("connect") /\ call.client = "unset"
    /\ ~Did("executeJs") /\ la.code = "none"
    /\ call.outcome.status # "returned"
    /\ Did("match") => call.outcome = Threw(NoMatchingCredential)

\* the requirement is one that validateGithubCredentialRequirements refuses
RequirementRejected(requirements) ==
  \/ ~TrustListConfigured
  \/ \A i \in 1..Len(ConfiguredTrustList) : ConfiguredTrustList[i] # requirements.issuer
  \/ requirements.credentialType # "GitHubVerification"
  \/ /\ requirements.claims.githubHandle.kind # "undefined"
     /\ \E i \in 1..Len(requirements.claims.githubHandle.items) :
          ~NonBlankString(requirements.claims.githubHandle.items[i])

\* C8: encrypt aborts when validateGithubCredentialRequirements refuses the
\* requirement: it throws that error, signs no token, never connects or
\* calls encryptString, and returns no bundle.
C8_EncryptAbortsOnInvalid ==
  (call.fn = "encrypt" /\ RequirementRejected(call.requirements)) =>
    /\ call.pc \in {"validate", "finally", "done"}
    /\ call.trace = <<>>
    /\ call.jwt = <<>>
    /\ call.client = "unset"
    /\ call.outcome.status # "returned"
    /\ call.pc # "validate" =>
         /\ call.outcome.status = "threw"
         /\ call.outcome.error =
              validateGithubCredentialRequirements(runtime, processEnv, call.requirements).error

C8_Witness ==
  /\ call.fn = "encrypt" /\ call.pc = "done"
  /\ TrustListConfigured
  /\ call.requirements.issuer = <<IssuerRebase, ".evil.com">>
  /\ call.outcome.status = "threw"
  /\ call.outcome.error[1] = "Untrusted issuer: "
  /\ call.trace = <<>>

(***************************************************************************)
(* Claims about the handle claims of a requirement                         *)
(***************************************************************************)
PolicyReachedHandles ==
  /\ polCalls > 0
  /\ TrustListConfigured
  /\ \E i \in 1..Len(ConfiguredTrustList) : ConfiguredTrustList[i] = polReq.issuer
  /\ polReq.credentialType = "GitHubVerification"

\* C11: for a trusted issuer and the supported type, a handle claim that is
\* present and whose single value, or any element of whose list, is empty,
\* whitespace only or not a string is refused with the invalid-handle error;
\* a list of non-empty strings is accepted.
C11_HandleValidation ==
  PolicyReachedHandles =>
    LET h == polReq.claims.githubHandle
    IN /\ ( /\ h.kind # "undefined"
            /\ \E i \in 1..Len(h.items) : ~NonBlankString(h.items[i]) )
            => /\ ~polOut.ok
               /\ polOut.error[1] = "Invalid GitHub handle: "
               /\ polOut.error[Len(polOut.error)] =
                    ". GitHub handles must be non-empty strings."
       /\ ( /\ h.kind = "array"
            /\ \A i \in 1..Len(h.items) : NonBlankString(h.items[i]) )
            => polOut.ok

C11_Witness ==
  /\ PolicyReachedHandles
  /\ polReq.claims.githubHandle = HandleList(<<StringItem(<<SP>>), StringItem(<<"bob">>)>>)
  /\ ~polOut.ok
  /\ polOut.error[1] = "Invalid GitHub handle: "

(***************************************************************************)
(* Claims about the ES256K tokens                                          *)
(***************************************************************************)
Verified == fx.fn \in {"verifyES256KJWT", "LaVerifyES256KJWT"}

\* the string splits on '.' into exactly three non-empty segments
ThreeSegments(jwt) == Len(jwt) = 3 /\ \A i \in 1..3 : jwt[i].enc # "empty"

\* did:pkh:eip155:<digits>:<0x + 40 hex digits>
FullDidPattern(did) ==
  /\ Len(did) = 5
  /\ SubSeq(did, 1, 3) = DidPrefix
  /\ did[4].key = -1 /\ did[4].form \in {"0", "1", "5", "10", "137", "010"}
  /\ did[5].key >= 0
  /\ did[5].form \in {"checksum", "lower", "upper", "badmix"}

\* a three-segment ES256K token whose iss is a well-formed DID of a valid
\* address and equals sub
WellFormedES256K(jwt) ==
  /\ ThreeSegments(jwt)
  /\ jwt[1].enc = "json" /\ jwt[2].enc = "json"
  /\ jwt[1].body.alg = "ES256K"
  /\ FullDidPattern(jwt[2].body.iss)
  /\ jwt[2].body.iss[5].form # "badmix"
  /\ jwt[2].body.iss = jwt[2].body.sub

\* C12: expiry is a soft failure on the ES256K path: a well-formed token
\* whose exp is earlier than the time of verification gives the result
\* valid = false and no exception, whatever its signature segment holds
\* (for the action programs: when verified for the address its iss names).
C12_ExpirySoftFailure ==
  ( /\ Verified
    /\ WellFormedES256K(fx.jwt)
    /\ fx.jwt[2].body.exp < fx.t
    /\ fx.fn = "LaVerifyES256KJWT" => fx.address.key = fx.jwt[2].body.iss[5].key )
  => /\ fx.out.ok
     /\ fx.out.value.valid = FALSE

\* the DID that signES256KJWT writes for the account holding key k
DidOfKey(k) == DidPrefix \o <<Lx("1"), Addr(k, "checksum")>>

\* C13: signature soundness: a token made by signES256KJWT for a signer,
\* verified by the host verifyES256KJWT no later than its exp, gives
\* valid = true and a payload whose iss is the DID:PKH of that signer.
C13_SignatureSoundness ==
  ( /\ fx.fn = "verifyES256KJWT"
    /\ fx.origin = "signES256KJWT"
    /\ fx.t <= fx.jwt[2].body.exp )
  => /\ fx.out.ok
     /\ fx.out.value.valid = TRUE
     /\ fx.out.value.payload.iss = DidOfKey(fx.signer)

\* a token signed with the odd parity is verified at the very minute of its
\* exp and found valid
C13_Witness ==
  /\ fx.fn = "verifyES256KJWT"
  /\ fx.origin = "signES256KJWT"
  /\ fx.t = fx.jwt[2].body.exp
  /\ fx.jwt[3].body.par = 1
  /\ fx.out.ok /\ fx.out.value.valid = TRUE

MalformedError == Throw(<<"Invalid JWT format">>)

\* C15: every token string that does not split on '.' into exactly three
\* non-empty segments, four or more segments included, is refused with the
\* malformed-token error by both verifiers.
C15_MalformedRejected ==
  ( Verified /\ ~ThreeSegments(fx.jwt) ) => fx.out = MalformedError

\* the token passes the tests that come before the DID test: three leading
\* segments, decodable header and payload, alg ES256K, iss a string
ReachesDidTest(jwt) ==
  /\ \A i \in 1..3 : ~SegmentMissing(Segment(jwt, i))
  /\ Decodable(jwt[1]) /\ Decodable(jwt[2])
  /\ jwt[1].body.alg = "ES256K"
  /\ jwt[2].body.iss # UndefinedStr

InvalidDidError == Throw(<<"Invalid DID format in JWT">>)

\* C16: a token is refused with the invalid-DID-format error unless its iss
\* matches the full pattern did:pkh:eip155:<digits>:<0x + 40 hex digits> and
\* iss equals sub; in particular no token whose iss lacks the chain id gets
\* as far as the expiry or signature tests.
C16_DidFormatEnforced ==
  ( /\ Verified
    /\ ReachesDidTest(fx.jwt)
    /\ ~( FullDidPattern(fx.jwt[2].body.iss)
          /\ fx.jwt[2].body.iss = fx.jwt[2].body.sub ) )
  => fx.out = InvalidDidError

(***************************************************************************)
(* Claims about the DID functions                                          *)
(***************************************************************************)
\* 0x and 40 hex digits, all of one case or with the EIP-55 checksum
WellFormedAddress(a) == a.key >= 1 /\ a.form \in {"checksum", "lower", "upper"}

SameHexDigits(a, b) ==
  /\ a.key >= 0 /\ a.key = b.key
  /\ a.form \in {"checksum", "lower", "upper", "badmix"}
  /\ b.form \in {"checksum", "lower", "upper", "badmix"}

\* C18: validateDIDPKHAddress never throws: it returns false when the DID
\* fails to parse, and otherwise true exactly when the address of the DID
\* equals the candidate address compared without regard to case.
C18_ValidateNeverThrows ==
  fx.fn = "validateDIDPKHAddress" =>
    /\ fx.out.ok
    /\ ~fx.parsed.ok => fx.out.value = FALSE
    /\ fx.parsed.ok =>
         ( fx.out.value = TRUE <=> SameHexDigits(fx.parsed.value.address, fx.address) )

\* a candidate written in another case than the DID's address is accepted
C18_Witness ==
  /\ fx.fn = "validateDIDPKHAddress"
  /\ fx.parsed.ok
  /\ fx.address.form = "upper"
  /\ fx.out.ok /\ fx.out.value = TRUE

(***************************************************************************)
(* Claims about the credential matcher                                     *)
(***************************************************************************)
Matched == fx.fn = "findMatchingCredential"

\* credentialSubject.id holds the lower-cased address as a substring
SubjectContains(cred, address) ==
  \E i \in 1..Len(cred.credentialSubject.id) :
    /\ address.key >= 1
    /\ cred.credentialSubject.id[i].key = address.key
    /\ cred.credentialSubject.id[i].form \in {"lower", "lower+"}

\* the requirement names handle claims: a list, or a single non-empty value
HandleNamed(requirements) ==
  LET h == requirements.claims.githubHandle
  IN \/ h.kind = "array"
     \/ h.kind = "single" /\ h.items[1].isString /\ h.items[1].chars # <<>>

HandleAccepted(cred, requirements) ==
  \E i \in 1..Len(requirements.claims.githubHandle.items) :
    requirements.claims.githubHandle.items[i] = cred.handle

\* issuer, subject address and handle conditions of the matcher
SatisfiesThree(cred, requirements, address) ==
  /\ cred.issuer = requirements.issuer
  /\ SubjectContains(cred, address)
  /\ HandleNamed(requirements) => HandleAccepted(cred, requirements)

\* positions of the pool whose credential satisfies the three conditions
Satisfying ==
  { i \in 1..Len(fx.credentials) :
      SatisfiesThree(fx.credentials[i], fx.requirements, fx.userAddress) }

Unmodified ==
  /\ fx.credentialsAfter = fx.credentials
  /\ fx.requirementsAfter = fx.requirements

OldEnough(issuanceDate, requirements, t) ==
  t - issuanceDate >= requirements.claims.minIssuanceAge

\* positions of the pool whose credential satisfies the three conditions
\* and is old enough
Eligible ==
  { i \in Satisfying :
      OldEnough(fx.credentials[i].issuanceDate, fx.requirements, fx.t) }

TooOldError == Throw(<<"Credential is too old">>)

\* C20: when the requirement gives a minimum issuance age, a credential
\* passes the age test exactly when now - issuanceDate >= minIssuanceAge:
\* the matcher returns the earliest credential that satisfies the other
\* conditions and is at least that old (none if there is none), and the
\* claim validation of the action programs, once the other claims are in
\* order, accepts the credential exactly when it is at least that old.
C20_MinimumAge ==
  /\ ( Matched /\ fx.requirements.claims.minIssuanceAge # 0 ) =>
       /\ Eligible = {} <=> fx.out = NoCredential
       /\ Eligible # {} =>
            fx.out = fx.credentials[CHOOSE i \in Eligible : \A j \in Eligible : i <= j]
  /\ ( /\ fx.fn = "validateCredentialClaims"
       /\ fx.requirements.claims.minIssuanceAge # 0
       /\ fx.out.ok \/ fx.out = TooOldError ) =>
       ( fx.out.ok <=> OldEnough(fx.jwtPayload.vc.issuanceDate, fx.requirements, fx.t) )

(***************************************************************************)
(* Claims about the EdDSA credential verifier                              *)
(***************************************************************************)
CredentialVerified == fx.fn = "verifyJWTWithEdDSA"

\* the signature segment is the signature of the selected issuer key over
\* header.payload
SignatureValid ==
  /\ fx.response.status = "200"
  /\ fx.key.ok
  /\ fx.jwt[3].enc = "sig"
  /\ fx.jwt[3].body.len = 64
  /\ fx.jwt[3].body.by = fx.key.value
  /\ fx.jwt[3].body.over = <<fx.jwt[1], fx.jwt[2]>>

ExpElapsed == fx.exp.carried /\ fx.exp.at < fx.t
NbfAhead == fx.nbf.carried /\ fx.nbf.at > fx.t

\* C21: time validity is a hard failure of the EdDSA verifier: for a
\* credential token with a valid signature, an exp that has elapsed makes
\* it throw the expired error and (the exp being in order) an nbf still in
\* the future makes it throw the not-yet-valid error; it never returns
\* valid = true for such a token.
C21_TimeValidityHard ==
  ( CredentialVerified /\ SignatureValid ) =>
    /\ ExpElapsed => fx.out = Throw(<<"JWT expired">>)
    /\ ( NbfAhead /\ ~ExpElapsed ) => fx.out = Throw(<<"JWT not yet valid">>)
    /\ ( ExpElapsed \/ NbfAhead ) => ~fx.out.ok

\* the methods of the document that the stated rule selects: id equal to
\* the key-id hint or ending in '#controller', Ed25519 type, key present
RuleSelects ==
  { i \in 1..Len(fx.response.doc) :
      LET method == fx.response.doc[i]
      IN /\ \/ method.id = fx.keyId
            \/ method.id[Len(method.id)] = "#controller"
         /\ method.type = "Ed25519VerificationKey2018"
         /\ method.publicKeyJwk # 0 }

\* C22: in every variant of the action program, the issuer key selected is
\* that of the first method, in document order, whose id equals the key-id
\* hint or ends with '#controller' and whose type is the Ed25519 key type
\* with key material present; with no such method the key-not-found error
\* is raised.
C22_KeySelection ==
  ( CredentialVerified /\ fx.response.status = "200" ) =>
    /\ RuleSelects = {} =>
         /\ ~fx.key.ok
         /\ fx.key.error[1] = "Key " /\ fx.key.error[Len(fx.key.error)] = " not found in DID document"
    /\ RuleSelects # {} =>
         /\ fx.key.ok
         /\ fx.key.value =
              fx.response.doc[CHOOSE i \in RuleSelects : \A j \in RuleSelects : i <= j].publicKeyJwk

(***************************************************************************)
(* Claims about the runs of an action program                              *)
(***************************************************************************)
FetchFailed == la.fetches >= 1 /\ la.response.status # "200"

\* C23: no automatic retry: a run of an action program fetches the issuer's
\* document at most once, and when that fetch fails (network error or a
\* status other than 2xx) the run ends in a failure response without
\* another fetch and without a call of decryptAndCombine.
C23_NoRetry ==
  /\ la.fetches <= 1
  /\ FetchFailed =>
       /\ la.decrypts = 0
       /\ la.pc \in {"credVerify", "done"}
       /\ la.pc = "done" =>
            /\ Len(la.responses) = 1
            /\ ~la.responses[1].success

\* a fetch answered with an HTTP error, and the run over with a failure
C23_Witness ==
  /\ la.fetches = 1
  /\ la.response = HttpError
  /\ la.pc = "done"
  /\ la.decrypts = 0
  /\ la.responses[1].error = <<"Failed to fetch DID document: ", "404">>

(***************************************************************************)
(* Claims about the bundle                                                 *)
(***************************************************************************)
EncryptReturned == call.fn = "encrypt" /\ call.outcome.status = "returned"

\* C24: every bundle returned by encryptToCredentialWithJWT has a
\* userAddress equal to the address embedded in the iss of its
\* userSignedJWT, and credentialRequirements equal both to the requirement
\* passed in and to the credential_requirements embedded in that token.
C24_BundleInvariant ==
  EncryptReturned =>
    LET bundle == call.outcome.bundle
        payload == bundle.userSignedJWT[2].body
    IN /\ Len(payload.iss) = 5
       /\ SubSeq(payload.iss, 1, 4) = <<Lx("did"), Lx("pkh"), Lx("eip155"), Lx("1")>>
       /\ bundle.userAddress = payload.iss[5]
       /\ bundle.userAddress.key = call.wallet
       /\ bundle.credentialRequirements = call.requirements
       /\ bundle.credentialRequirements = payload.credential_requirements

\* the second account has encrypted under the two-handle requirement
C24_Witness ==
  /\ EncryptReturned
  /\ call.wallet = 2
  /\ call.requirements = ReqTiny
  /\ call.outcome.bundle.userSignedJWT[2].body.purpose = "encrypt"

(***************************************************************************)
(* Claims about the trust list                                             *)
(***************************************************************************)
\* C25: the trust list is loaded once and never changes: for a fixed
\* issuer every call of validateTrustedIssuer during the life of the
\* process gives the same answer, whatever happens to the environment
\* between the calls.
C25_TrustListImmutable ==
  ( fx.fn = "validateTrustedIssuer" /\ fx.calls = 2 ) =>
    /\ fx.out.ok = fx.first.ok
    /\ fx.out.ok => fx.out.value = fx.first.value

(***************************************************************************)
(* Claims about the tokens signES256KJWT makes                             *)
(***************************************************************************)
Signed == fx.fn = "signES256KJWT"

\* the caller supplied members named iss, sub, iat, exp and nonce
CallerNamesOwnMembers == "iss" \in DOMAIN fx.fields

\* the members signES256KJWT writes are its own
OwnMembersKept ==
  LET payload == fx.jwt[2].body
  IN /\ payload.iss = DidOfKey(fx.signer)
     /\ payload.sub = payload.iss
     /\ payload.iat = now
     /\ payload.exp = payload.iat + fx.ttl
     /\ payload.nonce = FreshNonce

\* C26 (as stated): every token made by signES256KJWT, for every signer,
\* field set and ttl argument, has exp > iat and iss = sub = the DID:PKH of
\* the signer's address; fields the caller supplied under the names iss,
\* sub, iat, exp or nonce do not come through.
C26_ExpAfterIatAlways ==
  Signed =>
    /\ fx.jwt[2].body.exp > fx.jwt[2].body.iat
    /\ OwnMembersKept

\* C26 (amended): every token made by signES256KJWT has iss = sub = the
\* DID:PKH of the signer's address, iat = the time of signing and
\* exp = iat + ttl, whatever fields the caller supplied under those names;
\* hence exp > iat exactly when the ttl argument is positive.
C26_SignedTokenInvariant ==
  Signed =>
    /\ OwnMembersKept
    /\ fx.jwt[2].body.exp > fx.jwt[2].body.iat <=> fx.ttl > 0

\* account 1 signs fields in which the caller named another account as
\* iss, with the default lifetime
C26_Witness ==
  /\ Signed
  /\ fx.signer = 1
  /\ CallerNamesOwnMembers
  /\ fx.fields.iss # DidOfKey(1)
  /\ fx.ttl = ExpirationMinutes
  /\ fx.jwt[2].body.iss = DidOfKey(1)
  /\ fx.jwt[2].body.exp > fx.jwt[2].body.iat

\* parseJWT or parseDIDPKH fails on the token: fewer than the two segments
\* that are read, a segment that does not decode to JSON, an iss that is
\* missing or is no DID:PKH of a well-formed address
ParseFails(jwt) ==
  \/ Len(jwt) < 2
  \/ jwt[1].enc # "json"
  \/ jwt[2].enc # "json"
  \/ ~FullDidPattern(jwt[2].body.iss)
  \/ jwt[2].body.iss[5].form = "badmix"

\* C27: validateJWTUserAddress never throws: it returns false on any parse
\* error and otherwise true exactly when the address of iss equals the
\* expected address without regard to case; the signature segment plays no
\* part in the answer.
C27_ValidateJWTNeverThrows ==
  fx.fn = "validateJWTUserAddress" =>
    /\ fx.out.ok
    /\ ParseFails(fx.jwt) => fx.out.value = FALSE
    /\ ~ParseFails(fx.jwt) =>
         ( fx.out.value = TRUE <=> SameHexDigits(fx.jwt[2].body.iss[5], fx.address) )

\* a token whose signature segment was replaced is still found to name the
\* expected address, written in lower case
C27_Witness ==
  /\ fx.fn = "validateJWTUserAddress"
  /\ fx.origin = "tamper"
  /\ fx.address.form = "lower"
  /\ fx.out.ok /\ fx.out.value = TRUE

\* the bundle of the call is one that encrypt returns for its plaintext, the
\* wallet of the call and its requirement
ProducedByEncrypt ==
  \E t \in {Earlier, Epoch}, nonce \in {0, FreshNonce}, par \in {0, 1} :
    call.bundle = Bundle(Ciphertext(call.bundle.ciphertext.plain),
                         HashOf(call.bundle.ciphertext.plain),
                         call.bundle.credentialRequirements,
                         createEncryptionJWT(call.wallet, call.bundle.credentialRequirements,
                                             t, nonce, par),
                         Addr(call.wallet, "checksum"), FALSE)

\* credential i of the pool is signed by the issuer of the requirement, names
\* the address of the wallet in lower case and matches the requirement
AuthenticMatch(i) ==
  LET r == call.bundle.credentialRequirements
  IN /\ \E handle \in {Alice, Bob} :
          call.pool[i].jwt = GoodCredential(r.issuer, call.wallet, handle)
     /\ r.issuer = call.pool[i].issuer
     /\ HandleRequired(r) => ListIncludes(RequiredHandles(r), call.pool[i].handle)

EndToEndCase ==
  /\ call.fn = "decrypt"
  /\ ProducedByEncrypt
  /\ validateGithubCredentialRequirements(runtime, processEnv,
                                          call.bundle.credentialRequirements).ok
  /\ \E i \in 1..Len(call.pool) : AuthenticMatch(i)

\* the network, the nodes and the issuer's site have answered: the call has
\* returned, the issuer's document was fetched, the nodes have decrypted
InfrastructureAnswered ==
  /\ call.outcome.status = "returned"
  /\ la.response = Fetched(GenuineDocument(call.bundle.credentialRequirements.issuer))
  /\ call.outcome.response.error # <<"Failed to decrypt: nodes unreachable">>

\* C28: a bundle that encrypt produced for plaintext p, signer s and a valid
\* requirement r, decrypted by s with a pool that contains an authentic
\* credential matching r and bound to the address of s in lower case, releases
\* exactly p: no check of the host or of the action program refuses, and
\* once the network, the nodes and the issuer's site have answered the
\* response carries p.
C28_EndToEnd ==
  EndToEndCase =>
    /\ call.outcome.status = "threw" =>
         call.outcome.error \notin
           { <<"User wallet does not match the encrypted data owner">>,
             <<"Stored user JWT does not match user address">>,
             NoMatchingCredential }
    /\ InfrastructureAnswered =>
         call.outcome.response = [success |-> TRUE, error |-> <<>>,
                                  secret |-> call.bundle.ciphertext.plain]

\* the steps of the decrypt protocol the host has passed, in the order passed
HostSteps ==
  SelectSeq(call.trace, LAMBDA e : e \in {"address", "storedProof", "sign", "match"})

HostStepOrder == <<"address", "storedProof", "sign", "match">>

CredentialMatched == "match" \in { call.trace[i] : i \in DOMAIN call.trace }
                       /\ MatchFound(call.matching)

AuthenticityVerified == "eddsa" \in { la.log[i] : i \in DOMAIN la.log }

SecretReleased == la.decrypts > 0

DecryptSucceeded ==
  /\ call.fn \in {"decrypt", "decryptCredentialsOnly"}
  /\ call.outcome.status = "returned"
  /\ call.outcome.response.success

\* C29: a successful decrypt has passed, in this order and skipping none:
\* address binding checked, stored proof checked, fresh proof minted,
\* credential matched, credential authenticity verified, secret released; no
\* later step happens before an earlier one, and a failed step prevents all
\* later steps.
C29_DecryptStepOrder ==
  call.fn \in {"decrypt", "decryptCredentialsOnly"} =>
    /\ DecryptSucceeded =>
         /\ HostSteps = HostStepOrder
         /\ call.jwt # <<>>
         /\ CredentialMatched /\ AuthenticityVerified /\ SecretReleased
    /\ HostSteps = SubSeq(HostStepOrder, 1, Len(HostSteps))
    /\ call.jwt # <<>> => SubSeq(HostSteps, 1, 2) = <<"address", "storedProof">>
    /\ la.code # "none" => HostSteps = HostStepOrder /\ CredentialMatched
    /\ SecretReleased => AuthenticityVerified
    /\ call.outcome.status = "threw" /\ Len(HostSteps) < 3 =>
         call.jwt = <<>> /\ call.matching = NoCredential /\ la.code = "none"
    /\ call.outcome.status = "threw" /\ ~CredentialMatched => la.code = "none"
    /\ la.pc = "done" /\ ~AuthenticityVerified => ~SecretReleased

\* the checks of verifyES256KJWT as the specification names them, each with
\* the outcome it decides when it is the first to fail
FramingFails(jwt) ==
  \/ Len(jwt) < 3
  \/ \E i \in 1..3 : jwt[i].enc = "empty"
  \/ jwt[1].enc # "json" \/ jwt[2].enc # "json"

FramingError(jwt) ==
  IF Len(jwt) < 3 \/ \E i \in 1..3 : jwt[i].enc = "empty"
  THEN <<"Invalid JWT format">> ELSE <<"SyntaxError">>

AlgorithmFails(jwt) == jwt[1].body.alg # "ES256K"

DidFails(jwt) ==
  \/ jwt[2].body.iss = UndefinedStr
  \/ ~StartsWithDidPrefix(jwt[2].body.iss)
  \/ jwt[2].body.iss # jwt[2].body.sub

DidError(jwt) ==
  IF jwt[2].body.iss = UndefinedStr THEN <<"TypeError">>
  ELSE <<"Invalid DID format in JWT">>

AddressFails(jwt) == ~isAddress(LastSegment(jwt[2].body.iss))

ExpiryFails(jwt, t) == jwt[2].body.exp < t

SignatureLengthFails(jwt) == jwt[3].enc # "sig" \/ jwt[3].body.len # 64

SignatureLengthError(jwt) ==
  IF jwt[3].enc # "sig" THEN <<"InvalidCharacterError">>
  ELSE <<"Invalid signature length">>

RecoveryFails(jwt) ==
  ~RecoversTo(<<jwt[1], jwt[2]>>, jwt[3].body, LastSegment(jwt[2].body.iss))

\* what the first failing check decides: a throw with its message, or a
\* returned validity
FirstFailing(jwt, t) ==
  IF FramingFails(jwt) THEN [throws |-> TRUE, valid |-> FALSE, error |-> FramingError(jwt)]
  ELSE IF AlgorithmFails(jwt)
  THEN [throws |-> TRUE, valid |-> FALSE,
        error |-> <<"Unsupported algorithm: ", jwt[1].body.alg>>]
  ELSE IF DidFails(jwt) THEN [throws |-> TRUE, valid |-> FALSE, error |-> DidError(jwt)]
  ELSE IF AddressFails(jwt)
  THEN [throws |-> TRUE, valid |-> FALSE, error |-> <<"Invalid address in JWT DID">>]
  ELSE IF ExpiryFails(jwt, t) THEN [throws |-> FALSE, valid |-> FALSE, error |-> <<>>]
  ELSE IF SignatureLengthFails(jwt)
  THEN [throws |-> TRUE, valid |-> FALSE, error |-> SignatureLengthError(jwt)]
  ELSE IF RecoveryFails(jwt) THEN [throws |-> FALSE, valid |-> FALSE, error |-> <<>>]
  ELSE [throws |-> FALSE, valid |-> TRUE, error |-> <<>>]

\* the payload can be read and its exp has passed
AlreadyExpired ==
  /\ Len(fx.jwt) >= 2 /\ fx.jwt[2].enc = "json"
  /\ fx.jwt[2].body.exp < fx.t

\* C30: the outcome of verifyES256KJWT is decided by the first failing check
\* in the order framing, algorithm, DID format and iss = sub, address, expiry,
\* signature length, signature recovery. So an expired token that is also
\* malformed or names another algorithm throws, while an expired token with
\* a signature of another length than 64 bytes returns valid: false. Each
\* check is the test the function makes at that place.
C30_FirstFailingCheck ==
  fx.fn = "verifyES256KJWT" =>
    LET decided == FirstFailing(fx.jwt, fx.t)
    IN /\ fx.out.ok = ~decided.throws
       /\ decided.throws => fx.out.error = decided.error
       /\ ~decided.throws => fx.out.value.valid = decided.valid
       /\ AlreadyExpired /\ FramingFails(fx.jwt) => ~fx.out.ok
       /\ AlreadyExpired /\ ~FramingFails(fx.jwt) /\ AlgorithmFails(fx.jwt) => ~fx.out.ok
       /\ ( /\ AlreadyExpired /\ ~FramingFails(fx.jwt) /\ ~AlgorithmFails(fx.jwt)
            /\ ~DidFails(fx.jwt) /\ ~AddressFails(fx.jwt)
            /\ SignatureLengthFails(fx.jwt) )
          => fx.out.ok /\ fx.out.value.valid = FALSE

\* an expired token whose signature lost a byte is reported invalid
C30_Witness ==
  /\ fx.fn = "verifyES256KJWT"
  /\ fx.origin = "tamper"
  /\ fx.jwt[3].enc = "sig" /\ fx.jwt[3].body.len = 63
  /\ AlreadyExpired
  /\ fx.out.ok /\ fx.out.value.valid = FALSE

InLog(check) == \E i \in DOMAIN la.log : la.log[i] = check

\* the user-proof token names the requirement and the audience of the operation
BoundToOperation ==
  /\ HasPayload(la.params.userSignedJWT)
  /\ PayloadOf(la.params.userSignedJWT).credential_requirements
       = la.params.credentialRequirements
  /\ PayloadOf(la.params.userSignedJWT).aud = "lit-protocol-encryption"

\* C31: the enhanced programs abort without decrypting unless the
\* credential_requirements of the verified user-proof token equal the
\* credentialRequirements parameter and its aud is "lit-protocol-encryption";
\* both checks come after the signature of the token is verified and before
\* the credential token is fetched and verified.
C31_TokenBoundToOperation ==
  la.code \in EnhancedPrograms =>
    /\ la.decrypts > 0 => BoundToOperation
    /\ (la.fetches > 0 \/ InLog("eddsa") \/ la.parsed # <<>>) =>
         /\ BoundToOperation
         /\ SubSeq(la.log, 1, 4) = <<"es256k", "purpose", "requirements", "audience">>
    /\ (InLog("requirements") \/ InLog("audience")) =>
         /\ la.log[1] = "es256k"
         /\ UserProofVerifies
    /\ (la.pc = "done" /\ ~BoundToOperation) =>
         /\ la.decrypts = 0 /\ la.fetches = 0 /\ la.secret = ""
         /\ Len(la.responses) = 1 /\ ~la.responses[1].success

\* a verified token for another requirement stops the program before any fetch
C31_Witness ==
  /\ la.code \in EnhancedPrograms
  /\ la.pc = "done"
  /\ la.log = <<"es256k", "purpose">>
  /\ la.fetches = 0 /\ la.decrypts = 0
  /\ la.responses[1].error
       = <<"JWT credential requirements do not match operation requirements">>

\* C32: the matcher of the orchestrator and the claim validation of the
\* sandbox agree: a credential that findMatchingCredential returns for a
\* requirement and an address passes validateCredentialClaims for the same
\* requirement and address, and a credential the sandbox accepts is one the
\* matcher selects.
C32_MatcherAgreesWithSandbox ==
  fx.fn = "matchAndValidate" => (fx.matched <=> fx.accepted)

\* C33: every execution of an action program sets its response exactly once;
\* the response has success: true and carries the secret only if
\* decryptAndCombine was invoked and returned in that execution, and when a
\* step throws the response is success: false with an error message and no
\* secret.
C33_ResponseOnce ==
  la.code # "none" =>
    /\ Len(la.responses) <= 1
    /\ la.pc # "done" => la.responses = <<>>
    /\ la.pc = "done" =>
         /\ Len(la.responses) = 1
         /\ la.responses[1].success =>
              /\ la.decrypts = 1
              /\ la.secret # ""
              /\ la.responses[1].secret = la.secret
              /\ la.responses[1].secret = la.params.ciphertext.plain
              /\ la.responses[1].error = <<>>
         /\ ~la.responses[1].success =>
              /\ la.responses[1].error # <<>>
              /\ la.responses[1].secret = ""
         /\ (la.decrypts = 0 \/ la.secret = "") => ~la.responses[1].success

\* decryptAndCombine was invoked and threw: one response, without a secret
C33_Witness ==
  /\ la.pc = "done"
  /\ la.decrypts = 1
  /\ la.responses = <<[success |-> FALSE,
                       error |-> <<"Failed to decrypt: nodes unreachable">>,
                       secret |-> ""]>>

\* the bundle is marked as mock data, by its metadata or by its token
MockBundle == call.bundle.mock \/ call.bundle.userSignedJWT = MockJWT

\* C34: in the credentials-only decrypt a result is returned only on the mock
\* path, where the ciphertext is base64-decoded without any address or
\* credential check; for every bundle that is not mock data the call returns
\* nothing: it throws the no-matching-credential error or, when a credential
\* matches, the error that real decryption is unsupported.
C34_CredentialsOnlyMockOnly ==
  call.fn = "decryptCredentialsOnly" =>
    /\ call.outcome.status = "returned" =>
         /\ MockBundle
         /\ call.trace = <<"mock">>
         /\ call.matching = NoCredential
         /\ call.outcome.response.success =>
              call.outcome.response.secret = call.bundle.ciphertext.plain
    /\ (MockBundle /\ call.pc = "done") => call.outcome.status = "returned"
    /\ (~MockBundle /\ call.pc = "done") =>
         call.outcome = IF NoMatchInPool THEN Threw(NoMatchingCredential)
                        ELSE Threw(RealDecryptionUnsupported)
    /\ la.code = "none"

\* the mock token alone, with another account's address and an empty pool,
\* gets the decoded ciphertext
C34_Witness ==
  /\ call.fn = "decryptCredentialsOnly"
  /\ ~call.bundle.mock /\ call.bundle.userSignedJWT = MockJWT
  /\ call.userAddress = Addr(NumKeys, "checksum")
  /\ call.pool = <<>>
  /\ call.outcome.status = "returned"
  /\ call.outcome.response = [success |-> TRUE, error |-> <<>>, secret |-> "s1"]

\* the error of the step that fails before the client is created
EarlyError ==
  IF call.fn = "encrypt"
  THEN validateGithubCredentialRequirements(runtime, processEnv, call.requirements).error
  ELSE IF ~SameAccount(Addr(call.wallet, "checksum"), call.bundle.userAddress)
  THEN <<"User wallet does not match the encrypted data owner">>
  ELSE IF ~StoredProofBinds(call.bundle.userSignedJWT, call.wallet)
  THEN <<"Stored user JWT does not match user address">>
  ELSE NoMatchingCredential

\* C35: in encrypt and in decrypt, once the network client has been created
\* it is disconnected on every exit path, whether the call returns or throws
\* at a later step; when the call fails before the client is created no
\* disconnect is attempted and the error of the failing step is rethrown as
\* it is.
C35_DisconnectOnExit ==
  call.fn \in {"encrypt", "decrypt"} =>
    /\ call.client # "unset" <=> Did("connect")
    /\ Did("disconnect") =>
         /\ Did("connect")
         /\ call.pc = "done"
         /\ call.trace[Len(call.trace)] = "disconnect"
         /\ Len(SelectSeq(call.trace, LAMBDA e : e = "disconnect")) = 1
    /\ call.pc = "done" =>
         /\ call.outcome.status \in {"returned", "threw"}
         /\ Did("connect") => call.client = "disconnected" /\ Did("disconnect")
         /\ ~Did("connect") =>
              /\ call.client = "unset" /\ ~Did("disconnect")
              /\ call.outcome = Threw(EarlyError)

\* a decrypt that throws after the client was created has disconnected it
C35_Witness ==
  /\ call.fn = "decrypt"
  /\ call.pc = "done"
  /\ call.outcome = Threw(NetworkFailure("getSessionSigs"))
  /\ call.client = "disconnected"

\* the only call made is a loadCredentials whose request to the store failed
\* or was answered with text that does not parse
LoadFailedAtStore(p) ==
  /\ storage.session
  /\ storage.calls[p].op = "loadCredentials"
  /\ storage.calls[p].pc = "done"
  /\ storage.calls[p].read.kind \in {"threw", "corrupt"}
  /\ \A q \in DOMAIN storage.calls : q # p => storage.calls[q].op = "none"

\* C36: StorageManager.loadCredentials falls back to the cache: when the get
\* of the primary store throws or returns text that does not parse while a
\* session is active, the credential list cached before is returned.
C36_FallbackToCache ==
  \A p \in DOMAIN storage.calls :
    LoadFailedAtStore(p) =>
      storage.calls[p].out = Ok(CacheGet(storage.calls[p].cacheAtStart))

\* both calls have completed without an error
BothSucceeded ==
  \A p \in DOMAIN storage.calls :
    /\ storage.calls[p].pc = "done"
    /\ storage.calls[p].out.ok

\* two addCredential calls, or an addCredential and a removeCredential of
\* another id
UpdatePair ==
  /\ \A p \in DOMAIN storage.calls :
       storage.calls[p].op \in {"addCredential", "removeCredential"}
  /\ \E p \in DOMAIN storage.calls : storage.calls[p].op = "addCredential"
  /\ \A p, q \in DOMAIN storage.calls : p # q => storage.calls[p].arg # storage.calls[q].arg

Holds(list, id) == \E i \in DOMAIN list : list[i] = id

EffectInStore(p) ==
  IF storage.calls[p].op = "addCredential"
  THEN Holds(storage.store.list, storage.calls[p].arg)
  ELSE ~Holds(storage.store.list, storage.calls[p].arg)

\* C37: updates of the credential store are not lost under interleaving:
\* after two addCredential calls, or an addCredential and a removeCredential
\* of another id, that both complete, the primary store holds the effect of
\* both and the cache holds the same list as the primary store.
C37_NoLostUpdate ==
  (UpdatePair /\ BothSucceeded) =>
    /\ storage.store.kind = "list"
    /\ \A p \in DOMAIN storage.calls : EffectInStore(p)
    /\ storage.cache = storage.store

StepsWith(status) == {i \in 1..4 : access.accessSteps[i] = status}

AllCompleted == StepsWith("completed") = 1..4

\* the step at which each error of the flow is thrown
ThrownAt ==
  IF access.error = <<"No credentials selected">> THEN 2
  ELSE IF access.error = <<"Content not found">> THEN 3
  ELSE 1

\* C38: in the content-access flow the steps signature, verification,
\* decryption, complete advance strictly in order with at most one step
\* loading at any time; decrypted content is set and cached only after all
\* four steps are completed; when a step throws, exactly the step that was
\* loading becomes error, no later step leaves pending, no content is set,
\* and isAccessing is false after the call has ended on every path.
C38_AccessFlowInvariant ==
  access.pc # "unmounted" =>
    /\ Cardinality(StepsWith("loading")) <= 1
    /\ \A i, k \in 1..4 : (i < k /\ access.accessSteps[k] # "pending")
                              => access.accessSteps[i] = "completed"
    /\ access.pc # "idle" =>
         /\ access.isAccessing
         /\ \A i \in 1..4 : access.accessSteps[i] = "loading" <=> StepIds[i] = access.pc
    /\ (access.decryptedContent # "" \/ access.cached # "") =>
         /\ AllCompleted
         /\ access.error = <<>>
    /\ access.pc = "idle" =>
         /\ ~access.isAccessing
         /\ StepsWith("loading") = {}
         /\ access.error # <<>> =>
              /\ StepsWith("error") = {ThrownAt}
              /\ \A i \in 1..4 : i > ThrownAt => access.accessSteps[i] = "pending"
              /\ access.decryptedContent = "" /\ access.cached = ""

\* the second call failed at the verification step, after a first that
\* failed at the signature
C38_Witness ==
  /\ access.pc = "idle"
  /\ access.calls = 2
  /\ access.error = <<"No credentials selected">>
  /\ access.accessSteps = <<"completed", "error", "pending", "pending">>
  /\ ~access.isAccessing

\* the factor at which a failed execution of an enhanced program stopped
FailingFactor ==
  IF ~InLog("es256k") THEN "user_jwt_verification"
  ELSE IF InLog("audience") /\ ~InLog("claims") THEN "github_credential_verification"
  ELSE IF InLog("claims") /\ la.decrypts = 1 /\ la.secret = "" THEN "decryption_error"
  ELSE "general_error"

FailedEnhanced ==
  /\ la.code \in EnhancedPrograms
  /\ la.pc = "done"
  /\ Len(la.responses) = 1
  /\ ~la.responses[1].success

\* C39: when an enhanced program fails, its errorType classifies the
\* failing factor: a failure of the user-proof token verification is
\* reported as user_jwt_verification, a failure of the credential
\* verification as github_credential_verification, a failure of the decrypt
\* call as decryption_error, and anything else as general_error.
C39_ErrorTypeClassifiesFactor ==
  FailedEnhanced => la.responses[1].errorType = FailingFactor

====
